---- MODULE Spec2Model ----
(***************************************************************************)
(* git-legacy: the metrics extractor (core/analyzer.py), the scorer        *)
(* (core/scorer.py) and the helpers they use (utils/utils.py, config.py).  *)
(*                                                                         *)
(* Representation.                                                         *)
(*  - A JSON value is a record tagged by its field t: "absent" (the key is *)
(*    not in the mapping), "null" (None), "int", "bool", "str" (a string   *)
(*    that is not an ISO-8601 timestamp; v = "" is the empty string),      *)
(*    "isostr" (a string datetime.fromisoformat accepts), "dict", "list".  *)
(*  - Time is counted in ticks, TicksPerDay ticks to a day.                *)
(*  - A Python float that the extractor produces is an exact rational      *)
(*    [n, d] in lowest terms.                                              *)
(*  - A score is a fixed-point number of milli-points (MILLI per point):   *)
(*    100.0 is 100 * MILLI.                                                *)
(*  - A raised exception is the field exc of a result, "none" when the     *)
(*    call returned.                                                       *)
(***************************************************************************)
EXTENDS Integers, Sequences, FiniteSets, TLC

VARIABLES pc, now, raw, metrics, report, cls, calls, cache, ops,
          score_weights, engine, rt, net, threads

vars == <<pc, now, raw, metrics, report, cls, calls, cache, ops,
          score_weights, engine, rt, net, threads>>

\* the state that neither the GitHub client nor a call of cache.py touches
aside == <<pc, raw, metrics, report, cls, calls, ops, score_weights, engine,
           rt>>

\* ------------------------------------------------------------ bounds
MaxEvents == 3
MaxRepos == 2
TicksPerDay == 2
MaxBurst == 5
MaxCalls == 3
MaxTicks == 2
MaxOps == 3

Days(n) == n * TicksPerDay
Now0 == Days(1000)

\* ------------------------------------------------------------ config.py
UTOPIA_THRESHOLD == 70
DYSTOPIA_THRESHOLD == 40
MILLI == 1000

\* the value SCORE_WEIGHTS is given when config.py is imported, in hundredths;
\* the mapping itself is the variable score_weights: score() reads it at each
\* call and puts that very object, not a copy, in the report it returns
\* (scorer.py 47 and 63)
SCORE_WEIGHTS ==
    [consistency |-> 20, collaboration |-> 20, depth |-> 20,
     breadth |-> 15, momentum |-> 15, openness |-> 10]

DimensionNames ==
    {"consistency", "collaboration", "depth", "breadth", "momentum", "openness"}

\* ------------------------------------------------------------ JSON values
Absent == [t |-> "absent"]
Null == [t |-> "null"]
Num(n) == [t |-> "int", v |-> n]
Flag(b) == [t |-> "bool", v |-> b]
Text(s) == [t |-> "str", v |-> s]
\* "2026-02-01T00:00:00Z" and the like: ts is the instant (UTC for an aware
\* string, the wall clock for a naive one), off its UTC offset, both in ticks.
IsoAware(ts, off) == [t |-> "isostr", aware |-> TRUE, ts |-> ts, off |-> off]
IsoNaive(ts) == [t |-> "isostr", aware |-> FALSE, ts |-> ts, off |-> 0]
\* A mapping with n keys; commits is its "commits" entry.
Dict(n, commits) == [t |-> "dict", n |-> n, commits |-> commits]
List(len) == [t |-> "list", len |-> len]

\* dict.get(key, default)
GetMutNoDefault(d, key, default) == d[key]
Get(d, key, default) == IF d[key].t = "absent" THEN default ELSE d[key]

\* Python truth value of a JSON value
Truthy(v) ==
    CASE v.t = "absent" -> FALSE
      [] v.t = "null" -> FALSE
      [] v.t = "int" -> v.v # 0
      [] v.t = "bool" -> v.v
      [] v.t = "str" -> v.v # ""
      [] v.t = "isostr" -> TRUE
      [] v.t = "dict" -> v.n > 0
      [] v.t = "list" -> v.len > 0

\* ------------------------------------------------------------ rationals
RECURSIVE GCD(_, _)
GCD(a, b) == IF b = 0 THEN a ELSE GCD(b, a % b)

Ratio(n, d) == LET g == GCD(n, d) IN [n |-> n \div g, d |-> d \div g]
Q(k) == [n |-> k, d |-> 1]
RLe(a, b) == a.n * b.d <= b.n * a.d
RMax(a, b) == IF RLe(a, b) THEN b ELSE a

\* ------------------------------------------------------------ utils.py
ClampMutNoUpper(value) == IF value < 0 THEN 0 ELSE value

\* clamp(value, lo=0.0, hi=100.0) on milli-points
clamp(value) ==
    LET hi == 100 * MILLI
        m == IF hi < value THEN hi ELSE value
    IN IF m < 0 THEN 0 ELSE m

SafeDivideMutFloor(numerator, denominator) ==
    IF denominator.n = 0 THEN Q(0)
    ELSE Q((numerator.n * denominator.d) \div (numerator.d * denominator.n))

\* safe_divide(numerator, denominator, default=0.0) on rationals
safe_divide(numerator, denominator) ==
    IF denominator.n = 0 THEN Q(0)
    ELSE Ratio(numerator.n * denominator.d, numerator.d * denominator.n)

\* math.log1p(x) in thousandths, x in thousandths: ln(1+x) = k*ln 2 + ln m
\* with 1+x = 2^k * m, 1 <= m < 2, and ln m = 2*(z + z^3/3 + z^5/5),
\* z = (m-1)/(m+1).
RECURSIVE Halvings(_)
Halvings(y) == IF y < 2000 THEN 0 ELSE 1 + Halvings(y \div 2)

RECURSIVE Mantissa(_)
Mantissa(y) == IF y < 2000 THEN y ELSE Mantissa(y \div 2)

log1p(x) ==
    LET y == 1000 + x
        m == Mantissa(y)
        z == ((m - 1000) * 1000) \div (m + 1000)
        z2 == (z * z) \div 1000
        z3 == (z2 * z) \div 1000
        z5 == (z3 * z2) \div 1000
    IN Halvings(y) * 693 + 2 * (z + z3 \div 3 + z5 \div 5)

\* log_scale(value, scale): value a rational, scale an integer; milli-points
log_scale(value, scale) ==
    IF value.n <= 0 THEN 0
    ELSE clamp((log1p((value.n * 1000) \div value.d) * 100 * MILLI)
               \div log1p(scale * 1000))

\* parse_github_date(date_str): [exc, dt]; dt is Null or the isostr parsed
parse_github_date(date_str) ==
    IF ~Truthy(date_str) THEN [exc |-> "none", dt |-> Null]
    ELSE IF date_str.t = "isostr" THEN [exc |-> "none", dt |-> date_str]
    ELSE IF date_str.t = "str" THEN [exc |-> "none", dt |-> Null]
    ELSE [exc |-> "AttributeError", dt |-> Null]

\* days_since(date_str), the clock read giving clk: [exc, v], v in days
days_since(date_str, clk) ==
    LET p == parse_github_date(date_str)
    IN IF p.exc # "none" THEN [exc |-> p.exc, v |-> Q(0)]
       ELSE IF p.dt.t = "null" THEN [exc |-> "none", v |-> Q(0)]
       ELSE IF ~p.dt.aware THEN [exc |-> "TypeError", v |-> Q(0)]
       ELSE [exc |-> "none",
             v |-> IF clk - p.dt.ts > 0
                   THEN Ratio(clk - p.dt.ts, TicksPerDay) ELSE Q(0)]

\* years_since(date_str): days_since / 365.25
years_since(date_str, clk) ==
    LET ds == days_since(date_str, clk)
    IN [exc |-> ds.exc, v |-> Ratio(ds.v.n * 4, ds.v.d * 1461)]

\* ------------------------------------------------------------ analyzer.py
\* A numeric field as sum() takes it: None or a string is a TypeError.
IsNumber(v) == v.t \in {"int", "bool"}
NumberOf(v) == IF v.t = "bool" THEN (IF v.v THEN 1 ELSE 0) ELSE v.v

RADD(a, b) == Ratio(a.n * b.d + b.n * a.d, a.d * b.d)

ProfileMetricsMutOneRead(profile, t1, t2) ==
    LET created == Get(profile, "created_at", Null)
        age == days_since(created, t1)
        years == years_since(created, t1)
    IN IF age.exc # "none" THEN [exc |-> age.exc]
       ELSE [exc |-> "none",
             username |-> Get(profile, "login", Text("unknown")),
             account_age_days |-> age.v,
             account_age_years |-> years.v,
             public_repos |-> Get(profile, "public_repos", Num(0)),
             followers |-> Get(profile, "followers", Num(0)),
             following |-> Get(profile, "following", Num(0)),
             has_blog |-> Truthy(Get(profile, "blog", Null)),
             has_bio |-> Truthy(Get(profile, "bio", Null)),
             hireable |-> Truthy(Get(profile, "hireable", Null))]

\* _profile_metrics(profile); t1, t2 the clock reads of its two date calls
profile_metrics(profile, t1, t2) ==
    LET created == Get(profile, "created_at", Null)
        age == days_since(created, t1)
        years == years_since(created, t2)
    IN IF age.exc # "none" THEN [exc |-> age.exc]
       ELSE IF years.exc # "none" THEN [exc |-> years.exc]
       ELSE [exc |-> "none",
             username |-> Get(profile, "login", Text("unknown")),
             account_age_days |-> age.v,
             account_age_years |-> years.v,
             public_repos |-> Get(profile, "public_repos", Num(0)),
             followers |-> Get(profile, "followers", Num(0)),
             following |-> Get(profile, "following", Num(0)),
             has_blog |-> Truthy(Get(profile, "blog", Null)),
             has_bio |-> Truthy(Get(profile, "bio", Null)),
             hireable |-> Truthy(Get(profile, "hireable", Null))]

\* sum(r.get(key, 0) for r in repos): [exc, v]
RECURSIVE SumField(_, _)
SumField(repos, key) ==
    IF repos = <<>> THEN [exc |-> "none", v |-> 0]
    ELSE LET x == Get(Head(repos), key, Num(0))
             rest == SumField(Tail(repos), key)
         IN IF ~IsNumber(x) THEN [exc |-> "TypeError", v |-> 0]
            ELSE IF rest.exc # "none" THEN rest
            ELSE [exc |-> "none", v |-> NumberOf(x) + rest.v]

\* [r["language"] for r in repos if r.get("language")]
RECURSIVE LanguagesOf(_)
LanguagesOf(repos) ==
    IF repos = <<>> THEN <<>>
    ELSE LET l == Get(Head(repos), "language", Null)
         IN IF Truthy(l) THEN <<l.v>> \o LanguagesOf(Tail(repos))
            ELSE LanguagesOf(Tail(repos))

\* Counter(...): its keys in first-encountered order, and a key's count
RECURSIVE CounterKeys(_)
CounterKeys(s) ==
    IF s = <<>> THEN <<>>
    ELSE LET keys == CounterKeys(SubSeq(s, 1, Len(s) - 1))
             x == s[Len(s)]
         IN IF \E i \in 1..Len(keys) : keys[i] = x THEN keys
            ELSE Append(keys, x)

CounterCount(s, x) == Cardinality({i \in 1..Len(s) : s[i] = x})

RECURSIVE InsertByCountMutUnstable(_, _, _)
InsertByCountMutUnstable(sorted, x, s) ==
    IF sorted = <<>> THEN <<x>>
    ELSE IF CounterCount(s, Head(sorted)) > CounterCount(s, x)
         THEN <<Head(sorted)>> \o InsertByCountMutUnstable(Tail(sorted), x, s)
         ELSE <<x>> \o sorted

\* Counter.most_common(): sorted by count, descending, stable
RECURSIVE InsertByCount(_, _, _)
InsertByCount(sorted, x, s) ==
    IF sorted = <<>> THEN <<x>>
    ELSE IF CounterCount(s, Head(sorted)) >= CounterCount(s, x)
         THEN <<Head(sorted)>> \o InsertByCount(Tail(sorted), x, s)
         ELSE <<x>> \o sorted

RECURSIVE SortByCount(_, _)
SortByCount(keys, s) ==
    IF keys = <<>> THEN <<>>
    ELSE InsertByCount(SortByCount(SubSeq(keys, 1, Len(keys) - 1), s),
                       keys[Len(keys)], s)

most_common(s) == SortByCount(CounterKeys(s), s)

\* ", ".join(seq)
RECURSIVE Join(_)
Join(seq) ==
    IF seq = <<>> THEN ""
    ELSE IF Len(seq) = 1 THEN seq[1]
    ELSE seq[1] \o ", " \o Join(Tail(seq))

\* [days_since(r.get("created_at")) for r in repos if r.get("created_at")];
\* repository i reads the clock at clk[i]: [exc, sum, len]
RECURSIVE RepoAges(_, _, _)
RepoAges(repos, clk, i) ==
    IF i > Len(repos) THEN [exc |-> "none", sum |-> Q(0), len |-> 0]
    ELSE LET c == Get(repos[i], "created_at", Null)
         IN IF ~Truthy(c) THEN RepoAges(repos, clk, i + 1)
            ELSE LET a == days_since(c, clk[i])
                     rest == RepoAges(repos, clk, i + 1)
                 IN IF a.exc # "none"
                    THEN [exc |-> a.exc, sum |-> Q(0), len |-> 0]
                    ELSE IF rest.exc # "none" THEN rest
                    ELSE [exc |-> "none", sum |-> RADD(a.v, rest.sum),
                          len |-> rest.len + 1]

CountIf(seq, Test(_)) == Cardinality({i \in 1..Len(seq) : Test(seq[i])})

\* _repo_metrics(repos); clk[i] the clock read of repository i
repo_metrics(repos, clk) ==
    IF repos = <<>>
    THEN [exc |-> "none", total_repos |-> 0, total_stars |-> 0,
          total_forks_received |-> 0, total_watchers |-> 0,
          avg_repo_age_days |-> Q(0), languages |-> <<>>,
          top_languages |-> "N/A", has_license_ratio |-> Q(0),
          forked_ratio |-> Q(0), original_repo_count |-> 0,
          language_count |-> 0]
    ELSE
    LET total_stars == SumField(repos, "stargazers_count")
        total_forks_received == SumField(repos, "forks_count")
        total_watchers == SumField(repos, "watchers_count")
        langs == LanguagesOf(repos)
        languages == most_common(langs)
        ages == RepoAges(repos, clk, 1)
        Licensed(r) == Truthy(Get(r, "license", Null))
        Forked(r) == Truthy(Get(r, "fork", Null))
        licensed_count == CountIf(repos, Licensed)
        forked_count == CountIf(repos, Forked)
    IN IF total_stars.exc # "none" THEN [exc |-> total_stars.exc]
       ELSE IF total_forks_received.exc # "none"
            THEN [exc |-> total_forks_received.exc]
       ELSE IF total_watchers.exc # "none" THEN [exc |-> total_watchers.exc]
       ELSE IF ages.exc # "none" THEN [exc |-> ages.exc]
       ELSE [exc |-> "none",
             total_repos |-> Len(repos),
             total_stars |-> total_stars.v,
             total_forks_received |-> total_forks_received.v,
             total_watchers |-> total_watchers.v,
             avg_repo_age_days |->
                 IF ages.len > 0
                 THEN Ratio(ages.sum.n, ages.sum.d * ages.len) ELSE Q(0),
             languages |-> languages,
             top_languages |->
                 IF languages # <<>>
                 THEN Join(SubSeq(languages, 1,
                                  IF Len(languages) < 5 THEN Len(languages) ELSE 5))
                 ELSE "N/A",
             has_license_ratio |-> safe_divide(Q(licensed_count), Q(Len(repos))),
             forked_ratio |-> safe_divide(Q(forked_count), Q(Len(repos))),
             original_repo_count |-> Len(repos) - forked_count,
             language_count |-> Len(CounterKeys(langs))]

TypeIsMutDated(e, name) ==
    LET ty == Get(e, "type", Null)
    IN ty.t = "str" /\ ty.v = name /\ e.created_at.t = "isostr"

\* e.get("type") == name
TypeIs(e, name) ==
    LET ty == Get(e, "type", Null) IN ty.t = "str" /\ ty.v = name

TypeIn(e, names) == \E name \in names : TypeIs(e, name)

\* len(event.get("payload", {}).get("commits", [])): [exc, v]
CommitsLen(event) ==
    LET payload == Get(event, "payload", Dict(0, Absent))
    IN IF payload.t # "dict" THEN [exc |-> "AttributeError", v |-> 0]
       ELSE LET commits == Get(payload, "commits", List(0))
            IN IF commits.t = "list" THEN [exc |-> "none", v |-> commits.len]
               ELSE IF commits.t = "dict" THEN [exc |-> "none", v |-> commits.n]
               ELSE [exc |-> "TypeError", v |-> 0]

\* dt.date(): the calendar day of the timestamp in its own offset
DateOf(dt) == (dt.ts + dt.off) \div TicksPerDay

\* The try block of the loop (analyzer.py 153-157): the event is skipped
\* when created_at has no replace() (AttributeError) or is no ISO-8601
\* string (ValueError); the block lets no exception out.
ParseEventDateMutNoCatch(event) ==
    LET created_at == Get(event, "created_at", Text(""))
    IN IF created_at.t = "isostr"
       THEN [skip |-> FALSE, exc |-> "none", dt |-> created_at]
       ELSE [skip |-> FALSE,
             exc |-> IF created_at.t = "str" THEN "ValueError"
                     ELSE "AttributeError",
             dt |-> Null]

ParseEventDateMutEpoch(event) ==
    LET created_at == Get(event, "created_at", Text(""))
    IN IF created_at.t = "isostr"
       THEN [skip |-> FALSE, exc |-> "none", dt |-> created_at]
       ELSE [skip |-> FALSE, exc |-> "none", dt |-> IsoAware(Now0, 0)]

ParseEventDate(event) ==
    LET created_at == Get(event, "created_at", Text(""))
    IN IF created_at.t = "isostr"
       THEN [skip |-> FALSE, exc |-> "none", dt |-> created_at]
       ELSE [skip |-> TRUE, exc |-> "none", dt |-> Null]

\* the three age tests of the loop (analyzer.py 161, 167, 169), age in ticks
Within90MutNoFilter(age) == TRUE
Within90(age) == age <= Days(90)

InLast30MutStrict(age) == age < Days(30)
InLast30(age) == age <= Days(30)

\* One iteration of the loop over events (analyzer.py 152-170); acc holds
\* the loop's four accumulators and the exception that ended it, if any.
EventStep(acc, event, t) ==
    LET parsed == ParseEventDate(event)
    IN IF acc.exc # "none" THEN acc
       ELSE IF parsed.exc # "none" THEN [acc EXCEPT !.exc = parsed.exc]
       ELSE IF parsed.skip THEN acc
       ELSE IF ~parsed.dt.aware THEN [acc EXCEPT !.exc = "TypeError"]
       ELSE
       LET age == t - parsed.dt.ts
           push90 == Within90(age) /\ TypeIs(event, "PushEvent")
           commits == CommitsLen(event)
       IN IF push90 /\ commits.exc # "none"
          THEN [acc EXCEPT !.exc = commits.exc]
          ELSE [exc |-> "none",
                commit_count_90d |->
                    IF push90 THEN acc.commit_count_90d + commits.v
                    ELSE acc.commit_count_90d,
                active_days_set |->
                    IF push90 THEN acc.active_days_set \cup {DateOf(parsed.dt)}
                    ELSE acc.active_days_set,
                events_last_30d |->
                    IF InLast30(age) THEN acc.events_last_30d + 1
                    ELSE acc.events_last_30d,
                events_30_90d |->
                    IF ~InLast30(age) /\ age <= Days(90)
                    THEN acc.events_30_90d + 1
                    ELSE acc.events_30_90d]

RECURSIVE EventLoop(_, _, _)
EventLoop(events, t, n) ==
    IF n = 0
    THEN [exc |-> "none", commit_count_90d |-> 0, active_days_set |-> {},
          events_last_30d |-> 0, events_30_90d |-> 0]
    ELSE EventStep(EventLoop(events, t, n - 1), events[n], t)

MostActiveMutGe(events_last_30d, events_30_90d) ==
    IF events_last_30d >= events_30_90d THEN "Last 30 days (currently active)"
    ELSE IF events_30_90d > 0 THEN "30-90 days ago"
    ELSE "More than 90 days ago"

\* the most-active-period heuristic (analyzer.py 172-178); the source writes
\* the second label with an en dash
most_active_period(events_last_30d, events_30_90d) ==
    IF events_last_30d > events_30_90d THEN "Last 30 days (currently active)"
    ELSE IF events_30_90d > 0 THEN "30-90 days ago"
    ELSE "More than 90 days ago"

\* the record _event_metrics returns (analyzer.py 180-195), loop being what
\* the loop over events left
EventMetricsRecord(events, loop) ==
    LET IsPush(e) == TypeIs(e, "PushEvent")
        IsPr(e) == TypeIn(e, {"PullRequestEvent", "PullRequestReviewEvent"})
        IsIssue(e) == TypeIn(e, {"IssuesEvent", "IssueCommentEvent"})
        IsFork(e) == TypeIs(e, "ForkEvent")
        IsWatch(e) == TypeIs(e, "WatchEvent")
    IN IF loop.exc # "none" THEN [exc |-> loop.exc]
       ELSE [exc |-> "none",
             total_events |-> Len(events),
             push_events |-> CountIf(events, IsPush),
             pr_events |-> CountIf(events, IsPr),
             issue_events |-> CountIf(events, IsIssue),
             fork_events |-> CountIf(events, IsFork),
             watch_events |-> CountIf(events, IsWatch),
             commit_count_90d |-> loop.commit_count_90d,
             active_days_90d |-> Cardinality(loop.active_days_set),
             events_last_30d |-> loop.events_last_30d,
             events_30_90d |-> loop.events_30_90d,
             most_active_period |->
                 most_active_period(loop.events_last_30d, loop.events_30_90d),
             \* len(set(e.get("type") for e in events if e.get("type")))
             event_type_diversity |->
                 Cardinality({Get(events[i], "type", Null).v :
                     i \in {j \in 1..Len(events) :
                               Truthy(Get(events[j], "type", Null))}})]

\* _event_metrics(events); t its one clock read
event_metrics(events, t) ==
    IF events = <<>>
    THEN [exc |-> "none", total_events |-> 0, push_events |-> 0,
          pr_events |-> 0, issue_events |-> 0, fork_events |-> 0,
          watch_events |-> 0, commit_count_90d |-> 0, active_days_90d |-> 0,
          events_last_30d |-> 0, events_30_90d |-> 0,
          most_active_period |-> "N/A", event_type_diversity |-> 0]
    ELSE EventMetricsRecord(events, EventLoop(events, t, Len(events)))

DerivedMetricsMutNoFloor(m) ==
    [collaboration_raw |->
        m.pr_events * 3 + m.issue_events * 2 + m.fork_events,
     momentum_ratio |->
        safe_divide(Q(m.events_last_30d), safe_divide(Q(m.events_30_90d), Q(2)))]

\* _derived_metrics(m)
derived_metrics(m) ==
    LET recent_rate == Q(m.events_last_30d)
        historic_rate == safe_divide(Q(m.events_30_90d), Q(2))
    IN [collaboration_raw |->
            m.pr_events * 3 + m.issue_events * 2 + m.fork_events,
        momentum_ratio |-> safe_divide(recent_rate, RMax(historic_rate, Q(1)))]

\* The record without its field exc, and dict.update
Fields(r) == [k \in DOMAIN r \ {"exc"} |-> r[k]]
Update(m, other) == other @@ m

\* the four updates of analyze (analyzer.py 33-37); p, r, e are what the
\* three extractors returned or raised
Merged(p, r, e) ==
    IF p.exc # "none" THEN [exc |-> p.exc]
    ELSE IF r.exc # "none" THEN [exc |-> r.exc]
    ELSE IF e.exc # "none" THEN [exc |-> e.exc]
    ELSE LET m == Update(Update(Fields(p), Fields(r)), Fields(e))
         IN [exc |-> "none"] @@ Update(m, derived_metrics(m))

\* analyze(raw_data). clk are the instants its clock reads return, in call
\* order: clk[1], clk[2] in _profile_metrics, clk[2 + i] for repository i,
\* the last one in _event_metrics.
analyze(raw_data, clk) ==
    Merged(profile_metrics(raw_data.profile, clk[1], clk[2]),
           repo_metrics(raw_data.repos,
                        [i \in 1..Len(raw_data.repos) |-> clk[2 + i]]),
           event_metrics(raw_data.events, clk[Len(clk)]))

\* ------------------------------------------------------------ scorer.py
\* a metric read as a number: [exc, v], v a rational
Number(v) ==
    IF IsNumber(v) THEN [exc |-> "none", v |-> Q(NumberOf(v))]
    ELSE [exc |-> "TypeError", v |-> Q(0)]

\* value * 100 in milli-points, value a rational
Percent(value) == (value.n * 100 * MILLI) \div value.d

score_consistency(m) ==
    LET account_age == m.account_age_days
        active_ratio == clamp(Percent(safe_divide(Q(m.active_days_90d), Q(90))))
        commit_score == log_scale(Q(m.commit_count_90d), 50)
        longevity_bonus ==
            clamp((log_scale(Ratio(account_age.n, account_age.d * 365), 5) * 2)
                  \div 10)
    IN clamp((active_ratio * 5 + commit_score * 4 + longevity_bonus * 1) \div 10)

score_collaboration(m) ==
    LET pr_score == log_scale(Q(m.pr_events), 20)
        issue_score == log_scale(Q(m.issue_events), 30)
        fork_score == log_scale(Q(m.fork_events), 10)
        follower_score == log_scale(Number(m.followers).v, 100)
    IN clamp((pr_score * 40 + issue_score * 30 + fork_score * 15
              + follower_score * 15) \div 100)

ScoreDepthMutUnweighted(m) ==
    LET avg_age == m.avg_repo_age_days
    IN clamp(log_scale(Q(m.total_stars), 200)
             + log_scale(Q(m.total_forks_received), 50)
             + log_scale(Ratio(avg_age.n, avg_age.d * 30), 24)
             + log_scale(Q(m.original_repo_count), 30))

score_depth(m) ==
    LET avg_age == m.avg_repo_age_days
        star_score == log_scale(Q(m.total_stars), 200)
        fork_score == log_scale(Q(m.total_forks_received), 50)
        age_score == log_scale(Ratio(avg_age.n, avg_age.d * 30), 24)
        repo_score == log_scale(Q(m.original_repo_count), 30)
    IN clamp((star_score * 35 + fork_score * 25 + age_score * 20
              + repo_score * 20) \div 100)

score_breadth(m) ==
    LET lang_score == log_scale(Q(m.language_count), 10)
        diversity_score == log_scale(Q(m.event_type_diversity), 8)
        repo_breadth == log_scale(Q(m.total_repos), 50)
    IN clamp((lang_score * 50 + diversity_score * 30 + repo_breadth * 20)
             \div 100)

score_momentum(m) ==
    LET momentum_ratio == m.momentum_ratio
        recent_activity == log_scale(Q(m.events_last_30d), 60)
        capped == IF RLe(momentum_ratio, Q(3)) THEN momentum_ratio ELSE Q(3)
        ratio_score == clamp(Percent(capped) \div 3)
    IN clamp((ratio_score * 60 + recent_activity * 40) \div 100)

ScoreOpennessMutFullFork(m) ==
    LET license_score == Percent(m.has_license_ratio)
        fork_openness == Percent(m.forked_ratio)
        profile_score == (IF m.has_blog THEN 25 * MILLI ELSE 0)
                         + (IF m.has_bio THEN 25 * MILLI ELSE 0)
    IN clamp((license_score * 40 + fork_openness * 30 + profile_score * 30)
             \div 100)

score_openness(m) ==
    LET license_score == Percent(m.has_license_ratio)
        fork_openness == Percent(m.forked_ratio) \div 2
        profile_score == (IF m.has_blog THEN 25 * MILLI ELSE 0)
                         + (IF m.has_bio THEN 25 * MILLI ELSE 0)
    IN clamp((license_score * 40 + fork_openness * 30 + profile_score * 30)
             \div 100)

ClassifyMutStrict(overall_score) ==
    IF overall_score > UTOPIA_THRESHOLD * MILLI THEN "Utopia"
    ELSE IF overall_score < DYSTOPIA_THRESHOLD * MILLI THEN "Dystopia"
    ELSE "Unexpected"

\* _classify_tendency(overall_score), overall_score in milli-points
classify_tendency(overall_score) ==
    IF overall_score >= UTOPIA_THRESHOLD * MILLI THEN "Utopia"
    ELSE IF overall_score <= DYSTOPIA_THRESHOLD * MILLI THEN "Dystopia"
    ELSE "Unexpected"

\* sum(dimensions[dim] * weight for dim, weight in SCORE_WEIGHTS.items()),
\* the weights in hundredths
RECURSIVE WeightedSum(_, _, _)
WeightedSum(dimensions, weights, names) ==
    IF names = {} THEN 0
    ELSE LET dim == CHOOSE d \in names : TRUE
         IN dimensions[dim] * weights[dim]
            + WeightedSum(dimensions, weights, names \ {dim})

OverallMutUnweighted(dimensions) ==
    LET ones == [d \in DOMAIN SCORE_WEIGHTS |-> 1]
    IN clamp(WeightedSum(dimensions, ones, DOMAIN SCORE_WEIGHTS) \div 6)

\* overall_score (scorer.py 46-50)
overall_of(dimensions) ==
    clamp(WeightedSum(dimensions, score_weights, DOMAIN score_weights) \div 100)

ScoreReportMutEqualWeights(dimensions, overall_score) ==
    [exc |-> "none",
     dimensions |-> dimensions,
     overall_score |-> overall_score,
     tendency |-> classify_tendency(overall_score),
     weights |-> [d \in DOMAIN SCORE_WEIGHTS |-> 16]]

\* the report score() returns (scorer.py 52-64)
ScoreReport(dimensions, overall_score) ==
    [exc |-> "none",
     dimensions |-> dimensions,
     overall_score |-> overall_score,
     tendency |-> classify_tendency(overall_score),
     weights |-> score_weights]

AggregateMutCounted(dimensions) ==
    ScoreReport(dimensions, clamp(overall_of(dimensions) + Len(calls) * MILLI))

Aggregate(dimensions) == ScoreReport(dimensions, overall_of(dimensions))

\* score(metrics)
score(m) ==
    IF Number(m.followers).exc # "none" THEN [exc |-> "TypeError"]
    ELSE Aggregate([consistency |-> score_consistency(m),
                    collaboration |-> score_collaboration(m),
                    depth |-> score_depth(m),
                    breadth |-> score_breadth(m),
                    momentum |-> score_momentum(m),
                    openness |-> score_openness(m)])

\* ------------------------------------------------------------ inputs
\* What the fetch may hand to analyze(): profiles, repositories and events
\* with each field present, absent, null or malformed.
RawEvent(type, created_at, payload) ==
    [type |-> type, created_at |-> created_at, payload |-> payload]

Commits(n) == Dict(1, List(n))

\* events the loop reads without raising: well-formed ones, and ones it
\* skips or counts in part
EventChoices ==
    { RawEvent(Text("PushEvent"), IsoAware(Now0 - 1, 0), Commits(2)),
      RawEvent(Text("PushEvent"), IsoAware(Now0 - Days(30), 0), Absent),
      RawEvent(Text("PushEvent"), IsoAware(Now0 - Days(90), 0), Commits(1)),
      RawEvent(Text("PushEvent"), IsoAware(Now0 - Days(91), 0), Commits(3)),
      RawEvent(Text("PullRequestEvent"), IsoAware(Now0 - Days(30) - 1, 0),
               Dict(0, Absent)),
      RawEvent(Absent, IsoAware(Now0 - Days(1), 0), Absent),
      RawEvent(Text("PushEvent"), Absent, Absent),
      RawEvent(Absent, Absent, Absent),
      RawEvent(Text("WatchEvent"), Text("yesterday"), Absent),
      RawEvent(Text("IssuesEvent"), Null, Absent),
      RawEvent(Text("ForkEvent"), Num(5), Absent) }

RawRepo(language, count, created_at, fork, license) ==
    [language |-> language, stargazers_count |-> count,
     forks_count |-> count, watchers_count |-> count,
     created_at |-> created_at, fork |-> fork, license |-> license]

RepoChoices ==
    { RawRepo(Text("Python"), Num(5), IsoAware(Now0 - Days(400), 0),
              Flag(FALSE), Dict(1, Absent)),
      RawRepo(Text("Go"), Num(0), Absent, Flag(TRUE), Null),
      RawRepo(Null, Absent, Text("n/a"), Absent, Absent),
      RawRepo(Text("Rust"), Num(2), IsoAware(Now0 - Days(30), 0),
              Flag(TRUE), Dict(1, Absent)),
      RawRepo(Text("Python"), Null, Null, Flag(FALSE), Null),
      RawRepo(Text("Go"), Num(1), IsoNaive(Now0 - Days(400)), Flag(FALSE), Null),
      RawRepo(Text("Go"), Num(1), Num(5), Flag(FALSE), Null) }

FullProfile ==
    [login |-> Text("octocat"), created_at |-> IsoAware(Now0 - Days(730), 0),
     public_repos |-> Num(15), followers |-> Num(42), following |-> Num(20),
     blog |-> Text("https://octocat.dev"), bio |-> Text("I write code."),
     hireable |-> Flag(TRUE)]

EmptyProfile ==
    [login |-> Absent, created_at |-> Absent, public_repos |-> Absent,
     followers |-> Absent, following |-> Absent, blog |-> Absent,
     bio |-> Absent, hireable |-> Absent]

SeqsUpTo(S, n) == UNION {[1..k -> S] : k \in 0..n}

FewEvents == {<<>>} \cup {<<e>> : e \in {x \in EventChoices : x.payload = Commits(2)}}

RawData(profile, repos, events) ==
    [profile |-> profile, repos |-> repos, events |-> events]

\* The event lists: every list of at most MaxEvents events read without
\* raising, and every such list cut short by an event that raises (the loop
\* reads nothing after it). The loop raises on a date without offset, a null
\* payload, null commits.
EventLists ==
    LET RaisingEventChoices ==
            { RawEvent(Text("PushEvent"), IsoNaive(Now0 - Days(1)), Commits(1)),
              RawEvent(Text("PushEvent"), IsoAware(Now0 - Days(2), 0), Null),
              RawEvent(Text("PushEvent"), IsoAware(Now0 - Days(2), 0),
                       Dict(1, Null)) }
    IN SeqsUpTo(EventChoices, MaxEvents)
       \cup {Append(es, e) : es \in SeqsUpTo(EventChoices, MaxEvents - 1),
                             e \in RaisingEventChoices}

\* events told apart by their type only: the two types of the pull-request
\* bucket and of the issue bucket, a type of no bucket, a null type; some are
\* older than every age window, some carry no date
TypedEventLists ==
    LET TypedEventChoices ==
            { RawEvent(Text("PullRequestReviewEvent"), IsoAware(Now0 - Days(200), 0),
                       Absent),
              RawEvent(Text("PullRequestEvent"), Absent, Absent),
              RawEvent(Text("IssueCommentEvent"), IsoAware(Now0 - Days(45), 0), Absent),
              RawEvent(Text("IssuesEvent"), IsoAware(Now0 - Days(200), 0), Absent),
              RawEvent(Text("CreateEvent"), IsoAware(Now0 - Days(1), 0), Absent),
              RawEvent(Null, IsoAware(Now0 - Days(1), 0), Absent) }
    IN SeqsUpTo(TypedEventChoices, MaxEvents)

\* a burst of activity: k events of yesterday after j events of two months ago
Repeated(e, k) == [i \in 1..k |-> e]

BurstLists ==
    LET RecentEvent ==
            RawEvent(Text("WatchEvent"), IsoAware(Now0 - Days(1), 0), Absent)
        EarlierEvent ==
            RawEvent(Text("WatchEvent"), IsoAware(Now0 - Days(60), 0), Absent)
    IN {Repeated(RecentEvent, k) \o Repeated(EarlierEvent, j) :
           k \in 0..MaxBurst, j \in 0..MaxBurst}

\* the languages of a long repository listing, in listing order
LanguageListing ==
    << Text("C"), Text("Python"), Null, Text("Go"), Text("Python"),
       Text("Rust"), Text("Java"), Text("Go"), Absent, Text("Ruby"),
       Text("Python"), Text("Kotlin") >>

\* every stretch of the listing, as repositories of which only the language
\* is told
LanguageLists ==
    LET LanguageRepo(language) ==
            RawRepo(language, Num(0), Absent, Flag(FALSE), Null)
    IN {[k \in 1..(j - i + 1) |-> LanguageRepo(LanguageListing[i + k - 1])] :
           i \in 1..Len(LanguageListing), j \in 1..Len(LanguageListing)}

RawInputs ==
    LET DateChoices ==
            { Absent, Null, Text(""), Text("yesterday"), Num(5),
              IsoNaive(Now0 - Days(730)), IsoAware(Now0 + Days(1), 0) }
        ProfileChoices ==
            {FullProfile, EmptyProfile, [FullProfile EXCEPT !.followers = Null]}
            \cup {[FullProfile EXCEPT !.created_at = c] : c \in DateChoices}
        FewRepos ==
            {<<>>} \cup {<<r>> : r \in {x \in RepoChoices :
                                           x.language = Text("Python")}}
    IN
    {RawData(p, rs, es) : p \in ProfileChoices, rs \in FewRepos, es \in FewEvents}
    \cup {RawData(FullProfile, rs, es) :
            rs \in SeqsUpTo(RepoChoices, MaxRepos), es \in FewEvents}
    \cup {RawData(EmptyProfile, <<>>, es) :
            es \in EventLists \cup TypedEventLists \cup BurstLists}
    \cup {RawData(EmptyProfile, rs, <<>>) : rs \in LanguageLists}

\* The instants the clock reads of one analyze() call return when the clock
\* ticks once after the first tickAt of them.
ClockReads(raw_data, tickAt) ==
    [k \in 1..(3 + Len(raw_data.repos)) |-> IF k <= tickAt THEN now ELSE now + 1]

\* Metrics handed to score() directly, as tests/test_scorer.py make_metrics
\* does: a the event counts, b the repository counts, age in days.
MakeMetrics(a, b, age, license, blog, bio, momentum) ==
    [exc |-> "none",
     username |-> Text("testuser"),
     account_age_days |-> Q(age),
     account_age_years |-> Ratio(age * 4, 1461),
     public_repos |-> Num(b),
     followers |-> Num(a),
     following |-> Num(30),
     has_blog |-> blog,
     has_bio |-> bio,
     hireable |-> FALSE,
     total_repos |-> b,
     total_stars |-> b,
     total_forks_received |-> b,
     total_watchers |-> b,
     avg_repo_age_days |-> Q(age),
     languages |-> IF b = 0 THEN <<>> ELSE <<"Python">>,
     top_languages |-> IF b = 0 THEN "N/A" ELSE "Python",
     has_license_ratio |-> license,
     forked_ratio |-> IF b = 0 THEN Q(0) ELSE Ratio(1, 5),
     original_repo_count |-> b,
     language_count |-> b,
     total_events |-> 4 * a,
     push_events |-> a,
     pr_events |-> a,
     issue_events |-> a,
     fork_events |-> a,
     watch_events |-> 0,
     commit_count_90d |-> a,
     active_days_90d |-> a,
     events_last_30d |-> a,
     events_30_90d |-> a,
     most_active_period |-> "30-90 days ago",
     event_type_diversity |-> IF a = 0 THEN 0 ELSE 4,
     collaboration_raw |-> 6 * a,
     momentum_ratio |-> momentum]

CountChoices == {0, 1, 40, 5000}

\* A fully inactive profile (test_scorer.py 105-117): every activity signal
\* zero, no blog, no bio; its account age, mean repository age and original
\* repository count are free.
InactiveMetrics(age, avg_age, original) ==
    [MakeMetrics(0, 0, age, Q(0), FALSE, FALSE, Q(0))
        EXCEPT !.avg_repo_age_days = Q(avg_age),
               !.original_repo_count = original]

SyntheticMetrics ==
    {MakeMetrics(a, b, age, license, blog, bio, momentum) :
        a \in CountChoices, b \in CountChoices, age \in {0, 730, 20000},
        license \in {Q(0), Ratio(3, 5), Q(1), Q(2)},
        blog \in BOOLEAN, bio \in BOOLEAN,
        momentum \in {Q(0), Ratio(6, 5), Ratio(5, 2), Q(10)}}
    \cup {InactiveMetrics(age, avg_age, original) :
            age \in {0, 730, 20000}, avg_age \in {0, 720, 20000},
            original \in CountChoices}

\* ------------------------------------------------------------ actions
\* the threads that call the disk cache at the same time
NumThreads == 2
Threads == 1..NumThreads

Init ==
    /\ pc = "idle"
    /\ now = Now0
    /\ raw = Null
    /\ metrics = Null
    /\ report = Null
    /\ cls = Null
    /\ calls = <<>>
    /\ cache = <<>>
    /\ ops = <<>>
    /\ score_weights = SCORE_WEIGHTS
    \* NarrativeEngine.__init__: the in-process cache self._cache is empty
    /\ engine = [cache |-> <<>>]
    \* no function wrapped by retry() has been called, nor fetch_all
    /\ rt = [st |-> "none"]
    /\ net = [st |-> "new"]
    \* no thread is in a call of cache.py
    /\ threads = [th \in Threads |->
                    [op |-> "none", at |-> "idle", ret |-> Null, exc |-> "none"]]

\* metrics = analyze(raw_data)   (app.py 120-121)
Analyze(raw_data, tickAt) ==
    /\ pc = "idle"
    /\ LET clk == ClockReads(raw_data, tickAt)
           result == analyze(raw_data, clk)
       IN /\ raw' = raw_data
          /\ metrics' = result
          /\ now' = clk[Len(clk)]
          /\ pc' = IF metrics'.exc = "none" THEN "analyzed" ELSE "raised"
    /\ UNCHANGED <<report, cls, calls, cache, ops,
                 score_weights, engine, rt, net, threads>>

\* score_report = score(metrics)   (app.py 124)
Score ==
    /\ pc = "analyzed"
    /\ report' = score(metrics)
    /\ pc' = IF report'.exc = "none" THEN "scored" ELSE "raised"
    /\ UNCHANGED <<now, raw, metrics, cls, calls, cache, ops,
                 score_weights, engine, rt, net, threads>>

\* score(m) on metrics built by hand   (tests/test_scorer.py)
ScoreMetrics(m) ==
    /\ pc = "idle"
    /\ metrics' = m
    /\ report' = score(m)
    /\ pc' = "scored"
    /\ UNCHANGED <<now, raw, cls, calls, cache, ops,
                 score_weights, engine, rt, net, threads>>

\* _classify_tendency(s) called on its own   (tests/test_scorer.py 87-101)
Classify(s) ==
    /\ pc = "idle"
    /\ cls' = [overall_score |-> s, tendency |-> classify_tendency(s)]
    /\ pc' = "classified"
    /\ UNCHANGED <<now, raw, metrics, report, calls, cache, ops,
                 score_weights, engine, rt, net, threads>>

Next ==
    \/ /\ pc = "idle"
       /\ \E raw_data \in RawInputs :
            \E tickAt \in 0..(3 + Len(raw_data.repos)) : Analyze(raw_data, tickAt)
    \/ Score
    \/ /\ pc = "idle"
       /\ \E m \in SyntheticMetrics : ScoreMetrics(m)
    \/ /\ pc = "idle"
       \* the scores handed to _classify_tendency directly, in milli-points:
       \* every half point of [0, 100] and the neighbours of the thresholds
       /\ \E s \in {k * (MILLI \div 2) : k \in 0..200}
                   \cup {UTOPIA_THRESHOLD * MILLI - 1,
                         UTOPIA_THRESHOLD * MILLI + 1,
                         DYSTOPIA_THRESHOLD * MILLI - 1,
                         DYSTOPIA_THRESHOLD * MILLI + 1} : Classify(s)

Spec == Init /\ [][Next]_vars

\* ------------------------------------------------------------ repeated calls
\* analyze() and score() called again and again by one process while the
\* clock runs (tests/test_scorer.py 134-140 calls score twice); calls is the
\* log of the calls made: the function, its argument, the instants the clock
\* returned to it and what it returned.
CallInputs ==
    { RawData(FullProfile,
              <<RawRepo(Text("Python"), Num(5), IsoAware(Now0 - Days(400), 0),
                        Flag(FALSE), Dict(1, Absent))>>,
              <<RawEvent(Text("PushEvent"), IsoAware(Now0 - Days(30), 0),
                         Commits(2))>>),
      RawData(EmptyProfile, <<>>, <<>>) }

CallMetrics ==
    { MakeMetrics(40, 40, 730, Ratio(3, 5), TRUE, TRUE, Ratio(6, 5)),
      InactiveMetrics(730, 720, 0) }

\* the clock moves on between two calls
Tick ==
    /\ now < Now0 + MaxTicks
    /\ now' = now + 1
    /\ UNCHANGED <<pc, raw, metrics, report, cls, calls, cache, ops,
                 score_weights, engine, rt, net, threads>>

CallAnalyze(raw_data, tickAt) ==
    /\ Len(calls) < MaxCalls
    /\ LET clk == ClockReads(raw_data, tickAt)
       IN /\ calls' = Append(calls, [fn |-> "analyze", arg |-> raw_data,
                                     reads |-> clk,
                                     ret |-> analyze(raw_data, clk)])
          /\ now' = clk[Len(clk)]
    /\ UNCHANGED <<pc, raw, metrics, report, cls, cache, ops,
                 score_weights, engine, rt, net, threads>>

CallScore(m) ==
    /\ Len(calls) < MaxCalls
    /\ calls' = Append(calls, [fn |-> "score", arg |-> m, reads |-> <<>>,
                               ret |-> score(m)])
    /\ UNCHANGED <<pc, now, raw, metrics, report, cls, cache, ops,
                 score_weights, engine, rt, net, threads>>

NextCalls ==
    \/ Tick
    \/ \E raw_data \in CallInputs :
         \E tickAt \in 0..(3 + Len(raw_data.repos)) : CallAnalyze(raw_data, tickAt)
    \* score() is called on built Metrics or on Metrics the analyze() calls
    \* made so far returned
    \/ \E m \in CallMetrics
               \cup {calls[i].ret :
                        i \in {j \in 1..Len(calls) :
                                  /\ calls[j].fn = "analyze"
                                  /\ calls[j].ret.exc = "none"}} : CallScore(m)

SpecCalls == Init /\ [][NextCalls]_vars

\* ------------------------------------------------------------ callers of score()
\* report["weights"][dim] = w, done by a caller on a report score() returned
\* to it earlier. The report holds the mapping SCORE_WEIGHTS itself
\* (scorer.py 63), so the assignment changes the mapping score() reads. An
\* entry of calls keeps the report as it was when it was returned.
MutateWeights(dim, w) ==
    /\ \E i \in 1..Len(calls) :
          calls[i].fn = "score" /\ calls[i].ret.exc = "none"
    /\ score_weights' = [score_weights EXCEPT ![dim] = w]
    /\ UNCHANGED <<pc, now, raw, metrics, report, cls, calls, cache, ops,
                   engine, rt, net, threads>>

NextWeights ==
    \/ \E m \in CallMetrics : CallScore(m)
    \* the weights a caller writes, in hundredths
    \/ \E dim \in {"consistency", "openness"}, w \in {0, 90} :
         MutateWeights(dim, w)

SpecWeights == Init /\ [][NextWeights]_vars

\* ------------------------------------------------------------ cache.py
\* A username is the sequence of its character codes ("A" is 65, "a" 97).
\* username.lower(), str.lower() acting on each character
Lower(username) ==
    LET LowerChar(c) == IF c \in 65..90 THEN c + 32 ELSE c
    IN [i \in 1..Len(username) |-> LowerChar(username[i])]

DiskCacheKeyMutCaseSensitive(username) == [md5 |-> username]

\* _disk_cache_key(username): the MD5 digest of the lowered name, taken as
\* injective
disk_cache_key(username) == [md5 |-> Lower(username)]

\* DISK_CACHE_TTL, 24 hours, in ticks
DISK_CACHE_TTL == Days(1)

\* cache is the cache directory: a mapping from the key of each file
\* <key>.joblib to what the file holds. joblib.dump and joblib.load are
\* taken to succeed.
Exists(key) == key \in DOMAIN cache
Remove(files, key) == [k \in DOMAIN files \ {key} |-> files[k]]

GetCachedResultMutKeep(username) ==
    LET key == disk_cache_key(username)
    IN IF ~Exists(key) THEN [ret |-> Null, files |-> cache]
       ELSE IF now - cache[key].cached_at < DISK_CACHE_TTL
            THEN [ret |-> cache[key].data, files |-> cache]
            ELSE [ret |-> Null, files |-> cache]

\* get_cached_result(username): [ret, files], ret what it returns (Null for
\* None) and files the directory it leaves
get_cached_result(username) ==
    LET key == disk_cache_key(username)
    IN IF ~Exists(key) THEN [ret |-> Null, files |-> cache]
       ELSE LET cached == cache[key]
                age == now - cached.cached_at
            IN IF age < DISK_CACHE_TTL
               THEN [ret |-> cached.data, files |-> cache]
               ELSE [ret |-> Null, files |-> Remove(cache, key)]

\* set_cached_result(username, data) on the directory files: the directory
\* it leaves
set_cached_result(files, username, data) ==
    (disk_cache_key(username) :> [data |-> data, cached_at |-> now])
        @@ files

\* clear_cache(username): the directory it leaves
clear_cache(username) ==
    IF Exists(disk_cache_key(username))
    THEN Remove(cache, disk_cache_key(username)) ELSE cache

\* ------------------------------------------------------------ app.py
\* the result run_analysis builds (app.py 139-145). The deployment has no
\* OpenAI key: the narrative is the fallback one (app.py 127-133).
Result(m, score_report) ==
    [t |-> "dict", n |-> 5,
     metrics |-> m, score_report |-> score_report,
     futures |-> "_FALLBACK_FUTURES",
     is_fallback |-> TRUE,
     rate_limit |-> Dict(0, Absent)]

\* what the steps 3 to 5 of run_analysis make of the data fetched
Pipeline(raw_data) ==
    LET m == analyze(raw_data, [k \in 1..(3 + Len(raw_data.repos)) |-> now])
    IN IF m.exc # "none" THEN [exc |-> m.exc, did |-> {"fetch", "analyze"}]
       ELSE LET r == score(m)
            IN IF r.exc # "none"
               THEN [exc |-> r.exc, did |-> {"fetch", "analyze", "score"}]
               ELSE [exc |-> "none",
                     did |-> {"fetch", "analyze", "score", "narrate"},
                     result |-> Result(m, r)]

\* run_analysis(username, github_token) with what the world answers: fetched
\* is the data the fetch returns, or Null when it fails. An entry of ops
\* tells the operation, its arguments, its instant, what it returned and,
\* for run_analysis, which steps of the pipeline it performed.
RunAnalysis(username, fetched) ==
    /\ Len(ops) < MaxOps
    /\ LET got == get_cached_result(username)
           Done(ret, did) ==
               ops' = Append(ops, [op |-> "run", u |-> username, at |-> now,
                                   ret |-> ret, did |-> did])
       IN IF Truthy(got.ret)
          THEN /\ Done(got.ret, {})
               /\ cache' = got.files
          ELSE IF fetched = Null
          THEN /\ Done(Null, {"fetch"})
               /\ cache' = got.files
          ELSE LET out == Pipeline(fetched)
               IN IF out.exc # "none"
                  THEN /\ Done([t |-> "raised", exc |-> out.exc], out.did)
                       /\ cache' = got.files
                  ELSE /\ Done(out.result, out.did \cup {"cache_write"})
                       /\ cache' = set_cached_result(got.files, username,
                                                     out.result)
    /\ UNCHANGED <<pc, now, raw, metrics, report, cls, calls,
                 score_weights, engine, rt, net, threads>>

\* set_cached_result(username, data) called on its own
SetCachedResult(username, data) ==
    /\ Len(ops) < MaxOps
    /\ cache' = set_cached_result(cache, username, data)
    /\ ops' = Append(ops, [op |-> "set", u |-> username, at |-> now,
                           d |-> data])
    /\ UNCHANGED <<pc, now, raw, metrics, report, cls, calls,
                 score_weights, engine, rt, net, threads>>

\* clear_cache(username)
ClearCache(username) ==
    /\ Len(ops) < MaxOps
    /\ cache' = clear_cache(username)
    /\ ops' = Append(ops, [op |-> "clear", u |-> username, at |-> now])
    /\ UNCHANGED <<pc, now, raw, metrics, report, cls, calls,
                 score_weights, engine, rt, net, threads>>

\* get_cached_result(username) called on its own
GetCachedResult(username) ==
    /\ Len(ops) < MaxOps
    /\ LET got == get_cached_result(username)
       IN /\ cache' = got.files
          /\ ops' = Append(ops, [op |-> "get", u |-> username, at |-> now,
                                 ret |-> got.ret])
    /\ UNCHANGED <<pc, now, raw, metrics, report, cls, calls,
                 score_weights, engine, rt, net, threads>>

\* "Ab", "ab" and "b"
Usernames == { <<65, 98>>, <<97, 98>>, <<98>> }

\* what the fetch may return: the data of an account, or a failure
Fetched == { Null, RawData(EmptyProfile, <<>>, <<>>) }

\* a result stored earlier: that of an inactive account
StoredResults ==
    { Result(InactiveMetrics(730, 720, 0), score(InactiveMetrics(730, 720, 0))) }

\* results are stored for "Ab" and "b", entries cleared for "ab" and "b",
\* the entry of "ab" is read, and the analysis is run for each of the three
\* names
NextCache ==
    \/ Tick
    \/ \E u \in Usernames, f \in Fetched : RunAnalysis(u, f)
    \/ \E u \in Usernames \ {<<97, 98>>}, d \in StoredResults :
         SetCachedResult(u, d)
    \/ \E u \in Usernames \ {<<65, 98>>} : ClearCache(u)
    \/ GetCachedResult(<<97, 98>>)

SpecCache == Init /\ [][NextCache]_vars

\* ------------------------------------------------------------ narrative_engine.py
\* A JSON object is [t |-> "dict", n, items], items the mapping of its keys.
Object(items) ==
    [t |-> "dict", n |-> Cardinality(DOMAIN items), items |-> items]

\* one future: {"title": ..., "narrative": ...}
Future(title) ==
    Object([title |-> Text(title), narrative |-> Text("story")])

\* _FALLBACK_FUTURES (narrative_engine.py 30-76)
FALLBACK_FUTURES ==
    Object([utopia |-> Future("The Signal in the Noise"),
            dystopia |-> Future("The Abandoned Repository"),
            unexpected |-> Future("The Unlikely Pivot")])

\* x in container, for the containers and the two words validation asks
\* about: a key of a mapping, a substring of a string; any other container
\* here is None, which raises TypeError
Holds(container, word) ==
    IF container.t = "dict" THEN word \in DOMAIN container.items
    ELSE container.v = "a title and a narrative"

required_keys == {"utopia", "dystopia", "unexpected"}

\* the loop of _validate_futures over the keys still to visit: the exception
\* it raises, "none" when it ends. The order of the loop is that of a Python
\* set; the responses enumerated have at most one entry that fails.
RECURSIVE ValidateEntries(_, _)
ValidateEntries(futures, keys) ==
    IF keys = {} THEN "none"
    ELSE LET key == CHOOSE k \in keys : TRUE
             entry == futures.items[key]
             rest == ValidateEntries(futures, keys \ {key})
         IN IF entry.t \notin {"dict", "str"}
            THEN "TypeError"
            ELSE IF ~Holds(entry, "title") \/ ~Holds(entry, "narrative")
            THEN "ValueError"
            ELSE rest

\* _validate_futures(futures): the exception it raises, "none" when it
\* returns. futures.keys() exists on a mapping only.
validate_futures(futures) ==
    IF futures.t # "dict" THEN "AttributeError"
    ELSE IF ~(required_keys \subseteq DOMAIN futures.items) THEN "ValueError"
    ELSE ValidateEntries(futures, required_keys)

\* what one call of _call_openai does: it raises, or returns the parsed JSON
Raises(e) == [exc |-> e]
Returns(v) == [exc |-> "none", val |-> v]

\* API error, timeout, rate limit, invalid JSON, a response that misses a
\* required key or a field, responses of the wrong shape, and valid ones
GeneratorOutcomes ==
    LET ValidFutures ==
            Object([utopia |-> Future("u"), dystopia |-> Future("d"),
                    unexpected |-> Future("x")])
        MissingKey ==
            Object([utopia |-> Future("u"), dystopia |-> Future("d")])
        MissingNarrative ==
            Object([utopia |-> Future("u"), dystopia |-> Future("d"),
                    unexpected |-> Object([title |-> Text("x")])])
        NullEntry ==
            Object([utopia |-> Null, dystopia |-> Future("d"),
                    unexpected |-> Future("x")])
        ExtraKey ==
            Object([utopia |-> Future("u"), dystopia |-> Future("d"),
                    unexpected |-> Future("x"), bonus |-> Future("b")])
        StringEntry ==
            Object([utopia |-> Text("a title and a narrative"),
                    dystopia |-> Future("d"), unexpected |-> Future("x")])
    IN
    { Raises("APIError"), Raises("APITimeoutError"), Raises("RateLimitError"),
      Raises("JSONDecodeError"),
      Returns(ValidFutures), Returns(MissingKey), Returns(MissingNarrative),
      Returns(List(2)), Returns(NullEntry), Returns(ExtraKey),
      Returns(StringEntry) }

\* _cache_key(score_report): the MD5 digest of the report serialised with
\* sorted keys, taken as injective
cache_key(score_report) == [md5 |-> score_report]

\* the body of one try block of generate: _call_openai, then
\* _validate_futures. The exception that leaves it, "none" when it reaches
\* the return.
Attempt(out) == IF out.exc # "none" THEN out.exc ELSE validate_futures(out.val)

\* the exceptions the first try block catches (narrative_engine.py 156)
FirstCaught == {"JSONDecodeError", "KeyError", "ValueError"}

GenerateMutCacheFallback(score_report, out1, out2) ==
    LET key == cache_key(score_report)
        Generated(out, n) ==
            [exc |-> "none", ret |-> out.val, is_fallback |-> FALSE,
             n_calls |-> n, cache |-> (key :> out.val) @@ engine.cache]
    IN IF key \in DOMAIN engine.cache
       THEN [exc |-> "none", ret |-> engine.cache[key], is_fallback |-> FALSE,
             n_calls |-> 0, cache |-> engine.cache]
       ELSE IF Attempt(out1) = "none" THEN Generated(out1, 1)
       ELSE IF Attempt(out1) \notin FirstCaught
       THEN [exc |-> Attempt(out1), n_calls |-> 1, cache |-> engine.cache]
       ELSE IF Attempt(out2) = "none" THEN Generated(out2, 2)
       ELSE [exc |-> "none", ret |-> FALLBACK_FUTURES, is_fallback |-> TRUE,
             n_calls |-> 2,
             cache |-> (key :> FALLBACK_FUTURES) @@ engine.cache]

\* generate(score_report, metrics), out1 and out2 being what the first and
\* the second call of _call_openai do: what it returns or raises, the number
\* of generator calls it made and the in-process cache it leaves
generate(score_report, out1, out2) ==
    LET key == cache_key(score_report)
        Generated(out, n) ==
            [exc |-> "none", ret |-> out.val, is_fallback |-> FALSE,
             n_calls |-> n, cache |-> (key :> out.val) @@ engine.cache]
    IN IF key \in DOMAIN engine.cache
       THEN [exc |-> "none", ret |-> engine.cache[key], is_fallback |-> FALSE,
             n_calls |-> 0, cache |-> engine.cache]
       ELSE IF Attempt(out1) = "none" THEN Generated(out1, 1)
       ELSE IF Attempt(out1) \notin FirstCaught
       THEN [exc |-> Attempt(out1), n_calls |-> 1, cache |-> engine.cache]
       ELSE IF Attempt(out2) = "none" THEN Generated(out2, 2)
       ELSE [exc |-> "none", ret |-> FALLBACK_FUTURES, is_fallback |-> TRUE,
             n_calls |-> 2, cache |-> engine.cache]

\* the operations logged in ops by one process that holds one engine
MaxGen == 2

\* futures, is_fallback = engine.generate(score_report, metrics)
Generate(score_report, out1, out2) ==
    /\ Len(ops) < MaxGen
    /\ LET g == generate(score_report, out1, out2)
       IN /\ engine' = [cache |-> g.cache]
          /\ ops' = Append(ops,
                [op |-> "generate", key |-> cache_key(score_report),
                 exc |-> g.exc, n_calls |-> g.n_calls,
                 ret |-> IF g.exc = "none" THEN g.ret ELSE Null,
                 is_fallback |-> IF g.exc = "none" THEN g.is_fallback
                                 ELSE FALSE])
    /\ UNCHANGED <<pc, now, raw, metrics, report, cls, calls, cache,
                   score_weights, rt, net, threads>>

\* one process generates narratives with one engine, runs the analysis of
\* "ab" and stores results for "Ab" while the clock runs
NextNarrative ==
    \/ Tick
    \/ \E score_report \in {score(m) : m \in CallMetrics} :
         \E out1 \in GeneratorOutcomes :
         \E out2 \in IF Attempt(out1) \in FirstCaught THEN GeneratorOutcomes
                     ELSE {out1} :
            Generate(score_report, out1, out2)
    \/ /\ Len(ops) < MaxGen
       /\ \E f \in Fetched : RunAnalysis(<<97, 98>>, f)
    \/ /\ Len(ops) < MaxGen
       /\ \E d \in StoredResults : SetCachedResult(<<65, 98>>, d)

SpecNarrative == Init /\ [][NextNarrative]_vars

\* ------------------------------------------------------------ cache.py, called concurrently
\* The threads call get_cached_result, set_cached_result and clear_cache for
\* the one name "ab" at the same time; a step is one access to the file
\* system. threads[th] tells the call thread th is in (op), where it is in
\* it (at), and what its last call returned (ret) or raised to its caller
\* (exc). A file joblib.dump has opened and not finished writing cannot be
\* loaded.
TheKey == disk_cache_key(<<97, 98>>)
Unreadable == [unreadable |-> TRUE]

Ends(th, ret) == [threads EXCEPT ![th].at = "idle", ![th].ret = ret]
Goes(th, at) == [threads EXCEPT ![th].at = at]

\* thread th calls one of the three functions
Begin(th, op) ==
    /\ threads[th].at = "idle"
    /\ threads' = [threads EXCEPT ![th] = [op |-> op, at |-> "called",
                                           ret |-> Null, exc |-> "none"]]
    /\ UNCHANGED <<aside, net, now, cache>>

\* get_cached_result: os.path.exists (cache.py 41-42)
GetExists(th) ==
    /\ threads[th].op = "get" /\ threads[th].at = "called"
    /\ threads' = IF Exists(TheKey) THEN Goes(th, "load") ELSE Ends(th, Null)
    /\ UNCHANGED <<aside, net, now, cache>>

\* get_cached_result: joblib.load and the test of the age (cache.py 43-48);
\* an exception is caught and None returned (53-55)
GetLoad(th) ==
    /\ threads[th].op = "get" /\ threads[th].at = "load"
    /\ threads' = IF ~Exists(TheKey) \/ cache[TheKey] = Unreadable
                  THEN Ends(th, Null)
                  ELSE IF now - cache[TheKey].cached_at < DISK_CACHE_TTL
                  THEN Ends(th, cache[TheKey].data)
                  ELSE Goes(th, "remove")
    /\ UNCHANGED <<aside, net, now, cache>>

\* get_cached_result: os.remove of the expired file, inside the try
\* (cache.py 49-52)
GetRemove(th) ==
    /\ threads[th].op = "get" /\ threads[th].at = "remove"
    /\ threads' = Ends(th, Null)
    /\ cache' = IF Exists(TheKey) THEN Remove(cache, TheKey) ELSE cache
    /\ UNCHANGED <<aside, net, now>>

\* set_cached_result: joblib.dump opens the file (cache.py 62-63)
SetOpens(th) ==
    /\ threads[th].op = "set" /\ threads[th].at = "called"
    /\ threads' = [threads EXCEPT ![th].at = "writing", ![th].ret = Num(now)]
    /\ cache' = (TheKey :> Unreadable) @@ cache
    /\ UNCHANGED <<aside, net, now>>

\* set_cached_result: joblib.dump has written the file; a file removed
\* meanwhile stays removed
SetWritten(th, data) ==
    /\ threads[th].op = "set" /\ threads[th].at = "writing"
    /\ threads' = Ends(th, Null)
    /\ cache' = IF Exists(TheKey)
                THEN (TheKey :> [data |-> data,
                                 cached_at |-> threads[th].ret.v]) @@ cache
                ELSE cache
    /\ UNCHANGED <<aside, net, now>>

\* clear_cache: os.path.exists (cache.py 73)
ClearExists(th) ==
    /\ threads[th].op = "clear" /\ threads[th].at = "called"
    /\ threads' = IF Exists(TheKey) THEN Goes(th, "remove")
                  ELSE Ends(th, Flag(FALSE))
    /\ UNCHANGED <<aside, net, now, cache>>

\* clear_cache: os.remove, outside any try (cache.py 74-76): a file that is
\* gone raises FileNotFoundError to the caller
ClearRemove(th) ==
    /\ threads[th].op = "clear" /\ threads[th].at = "remove"
    /\ threads' = IF Exists(TheKey) THEN Ends(th, Flag(TRUE))
                  ELSE [threads EXCEPT ![th].at = "idle",
                                       ![th].exc = "FileNotFoundError"]
    /\ cache' = IF Exists(TheKey) THEN Remove(cache, TheKey) ELSE cache
    /\ UNCHANGED <<aside, net, now>>

NextRace ==
    \/ Tick
    \/ \E th \in Threads, op \in {"get", "set", "clear"} : Begin(th, op)
    \/ \E th \in Threads : GetExists(th)
    \/ \E th \in Threads : GetLoad(th)
    \/ \E th \in Threads : GetRemove(th)
    \/ \E th \in Threads : SetOpens(th)
    \/ \E th \in Threads, d \in StoredResults : SetWritten(th, d)
    \/ \E th \in Threads : ClearExists(th)
    \/ \E th \in Threads : ClearRemove(th)

SpecRace == Init /\ [][NextRace]_vars

\* ------------------------------------------------------------ utils.py: retry
\* rt is one call of a function wrapped by retry(max_attempts, delay,
\* exceptions): the arguments of the decorator, the attempt the loop is at,
\* what the call has done so far (trace: the invocations of the wrapped
\* function with what each did, and the sleeps, in milliseconds) and how it
\* ended.
MaxAttempts == 3

RECURSIVE Pow2(_)
Pow2(k) == IF k = 0 THEN 1 ELSE 2 * Pow2(k - 1)

\* wrapper(*args, **kwargs) is entered (utils.py 24-25)
Wrapper(fn, max_attempts, delay, exceptions) ==
    [st |-> "running", fn |-> fn, max_attempts |-> max_attempts,
     delay |-> delay, exceptions |-> exceptions, attempt |-> 1,
     trace |-> <<>>, ret |-> Null, exc |-> "none"]

RetryStepMutSleepLast(r, out) ==
    LET called == Append(r.trace, [e |-> "call", k |-> r.attempt, out |-> out])
    IN IF out.exc = "none"
       THEN [r EXCEPT !.st = "returned", !.trace = called, !.ret = out.val]
       ELSE IF out.exc \notin r.exceptions
       THEN [r EXCEPT !.st = "raised", !.trace = called, !.exc = out.exc]
       ELSE [r EXCEPT !.st = IF r.attempt < r.max_attempts THEN "running"
                             ELSE "raised",
                      !.exc = IF r.attempt < r.max_attempts THEN "none"
                              ELSE out.exc,
                      !.attempt = r.attempt + 1,
                      !.trace = Append(called,
                          [e |-> "sleep",
                           t |-> r.delay * Pow2(r.attempt - 1)])]

\* one turn of the loop of wrapper (utils.py 26-42) and, after the last one,
\* raise last_exc (43): out is what func(*args, **kwargs) does
retry_step(r, out) ==
    LET called == Append(r.trace, [e |-> "call", k |-> r.attempt, out |-> out])
    IN IF out.exc = "none"
       THEN [r EXCEPT !.st = "returned", !.trace = called, !.ret = out.val]
       ELSE IF out.exc \notin r.exceptions
       THEN [r EXCEPT !.st = "raised", !.trace = called, !.exc = out.exc]
       ELSE IF r.attempt < r.max_attempts
       THEN [r EXCEPT !.attempt = r.attempt + 1,
                      !.trace = Append(called,
                          [e |-> "sleep",
                           t |-> r.delay * Pow2(r.attempt - 1)])]
       ELSE [r EXCEPT !.st = "raised", !.trace = called, !.exc = out.exc]

\* ------------------------------------------------------------ github_client.py
\* what the server does with one request: it answers with an HTTP status,
\* or the request times out or cannot connect
HttpOutcomes ==
    LET Status(code) == [answer |-> "response", status_code |-> code]
        NoAnswer(e) == [answer |-> e, status_code |-> 0]
    IN {Status(200), Status(404), Status(401), Status(403), Status(429),
        Status(500), NoAnswer("Timeout"), NoAnswer("ConnectionError")}

\* the body of GitHubClient._get for one request (github_client.py 77-94)
get_once(http) ==
    IF http.answer # "response" THEN Raises(http.answer)
    ELSE IF http.status_code = 200 THEN Returns(http)
    ELSE IF http.status_code = 404 THEN Raises("GitHubUserNotFoundError")
    ELSE IF http.status_code = 401 THEN Raises("GitHubAuthError")
    ELSE IF http.status_code \in {403, 429} THEN Raises("GitHubRateLimitError")
    ELSE Raises("GitHubAPIError")

\* @retry(max_attempts=2, delay=1.5, exceptions=(requests.Timeout,
\* requests.ConnectionError)) on _get (github_client.py 71-75)
GetWrapper == Wrapper("_get", 2, 1500, {"Timeout", "ConnectionError"})

\* a wrapped function is called
CallWrapped(w) ==
    /\ rt.st # "running"
    /\ rt' = w
    /\ UNCHANGED <<pc, now, raw, metrics, report, cls, calls, cache, ops,
                   score_weights, engine, net, threads>>

\* the wrapped function is invoked once more
Invoke(out) ==
    /\ rt.st = "running"
    /\ rt' = retry_step(rt, out)
    /\ UNCHANGED <<pc, now, raw, metrics, report, cls, calls, cache, ops,
                   score_weights, engine, net, threads>>

\* a function f wrapped by retry(max_attempts=n, delay=d, exceptions=(E1,
\* E2)), d in milliseconds, which returns, raises E1 or E2, or raises
\* KeyError; and _get
NextRetry ==
    \/ \E n \in 1..MaxAttempts, d \in {500, 1000, 1500} :
         CallWrapped(Wrapper("f", n, d, {"E1", "E2"}))
    \/ CallWrapped(GetWrapper)
    \/ /\ rt.st = "running" /\ rt.fn = "f"
       /\ \E out \in {Returns(Text("v")), Raises("E1"), Raises("E2"),
                      Raises("KeyError")} : Invoke(out)
    \/ /\ rt.st = "running" /\ rt.fn = "_get"
       /\ \E http \in HttpOutcomes : Invoke(get_once(http))

SpecRetry == Init /\ [][NextRetry]_vars

\* ------------------------------------------------------------ github_client.py: fetch_all
GITHUB_EVENTS_PAGES == 3

\* one call of _get: the wrapper of retry run on the answers h1 and h2 of
\* the server to its first and, if there is one, its second request
get(h1, h2) ==
    LET first == retry_step(GetWrapper, get_once(h1))
    IN IF first.st = "running" THEN retry_step(first, get_once(h2)) ELSE first

\* the bodies the server returns: a profile, the repositories, a page of
\* events (two events that tell their page) or an empty page
ReposBody == <<[repo |-> 1], [repo |-> 2]>>
EventsBody(page) == <<[page |-> page, i |-> 1], [page |-> page, i |-> 2]>>

\* the ways a call of _get_json may fail: the exceptions _get may raise
Failures ==
    LET GetEndings ==
            { IF get(h1, h2).st = "returned" THEN "ok" ELSE get(h1, h2).exc :
                h1 \in HttpOutcomes, h2 \in HttpOutcomes }
    IN {Raises(e) : e \in GetEndings \ {"ok"}}

EventsTurnMutNoBreak(ev, out) ==
    LET all == IF out.exc = "none" THEN ev.all_events \o out.val
               ELSE ev.all_events
    IN IF out.exc \notin {"none", "GitHubAPIError"}
       THEN [ev EXCEPT !.st = "done", !.out = Raises(out.exc)]
       ELSE IF ev.page < GITHUB_EVENTS_PAGES
       THEN [ev EXCEPT !.st = "between", !.page = ev.page + 1,
                       !.all_events = all]
       ELSE [ev EXCEPT !.st = "done", !.all_events = all,
                       !.out = Returns(all)]

\* one turn of the loop of fetch_events (github_client.py 143-154) for the
\* page ev.page, out being what _get_json did: the break on an empty page,
\* the extend, the break on GitHubAPIError; any other exception leaves
\* fetch_events
events_turn(ev, out) ==
    IF out.exc = "none"
    THEN IF out.val = <<>>
         THEN [ev EXCEPT !.st = "done", !.out = Returns(ev.all_events)]
         ELSE IF ev.page < GITHUB_EVENTS_PAGES
         THEN [ev EXCEPT !.st = "between", !.page = ev.page + 1,
                         !.all_events = ev.all_events \o out.val]
         ELSE [ev EXCEPT !.st = "done",
                         !.all_events = ev.all_events \o out.val,
                         !.out = Returns(ev.all_events \o out.val)]
    ELSE IF out.exc = "GitHubAPIError"
    THEN [ev EXCEPT !.st = "done", !.out = Returns(ev.all_events)]
    ELSE [ev EXCEPT !.st = "done", !.out = Raises(out.exc)]

\* get_rate_limit_status(): every exception gives the zeros
get_rate_limit_status(out) ==
    IF out.exc = "none" THEN [limit |-> 60, remaining |-> 59]
    ELSE [limit |-> 0, remaining |-> 0]

FetchAllResultMutSwapped(profile, results, rate_limit) ==
    [profile |-> profile, repos |-> results.events, events |-> results.repos,
     rate_limit |-> rate_limit]

\* the mapping fetch_all returns (github_client.py 199-204)
FetchAllResult(profile, results, rate_limit) ==
    [profile |-> profile, repos |-> results.repos, events |-> results.events,
     rate_limit |-> rate_limit]

\* net is one call of fetch_all: st tells where the calling thread is, log
\* lists the requests in the order they were sent ("start") and answered
\* ("end", with what _get_json did), repos and events are the two futures
\* of the pool, results what the as_completed loop has collected, pending
\* the exception a future.result() raised in that loop.
Sent(req, page) == [ev |-> "start", req |-> req, page |-> page, out |-> Null]
Answered(req, page, out) ==
    [ev |-> "end", req |-> req, page |-> page, out |-> out]


\* fetch_all(username) is called: the profile request is sent (177)
FetchAll ==
    /\ net.st = "new"
    /\ net' = [st |-> "profile", log |-> <<Sent("profile", 0)>>,
               profile |-> Null,
               repos |-> [st |-> "queued", page |-> 1, all_events |-> <<>>,
                          out |-> Null],
               events |-> [st |-> "queued", page |-> 1, all_events |-> <<>>,
                           out |-> Null],
               results |-> [repos |-> Null, events |-> Null],
               pending |-> "none", ret |-> Null, exc |-> "none"]
    /\ UNCHANGED <<aside, now, cache, threads>>

\* fetch_profile ends; when it returns, the pool is made and the two
\* fetches are submitted (181-183)
ProfileEnds(out) ==
    /\ net.st = "profile"
    /\ net' = IF out.exc = "none"
              THEN [net EXCEPT !.st = "pool", !.profile = out.val,
                               !.log = Append(@, Answered("profile", 0, out))]
              ELSE [net EXCEPT !.st = "raised", !.exc = out.exc,
                               !.log = Append(@, Answered("profile", 0, out))]
    /\ UNCHANGED <<aside, now, cache, threads>>

\* a worker of the pool starts fetch_repos
ReposStarts ==
    /\ net.st = "pool" /\ net.repos.st = "queued"
    /\ net' = [net EXCEPT !.repos.st = "inflight",
                          !.log = Append(@, Sent("repos", 0))]
    /\ UNCHANGED <<aside, now, cache, threads>>

ReposEnds(out) ==
    /\ net.st = "pool" /\ net.repos.st = "inflight"
    /\ net' = [net EXCEPT !.repos.st = "done", !.repos.out = out,
                          !.log = Append(@, Answered("repos", 0, out))]
    /\ UNCHANGED <<aside, now, cache, threads>>

\* a worker of the pool starts fetch_events, or fetch_events goes on to its
\* next page: the request for the page is sent
EventsRequests ==
    /\ net.st = "pool" /\ net.events.st \in {"queued", "between"}
    /\ net' = [net EXCEPT !.events.st = "inflight",
                          !.log = Append(@, Sent("events", net.events.page))]
    /\ UNCHANGED <<aside, now, cache, threads>>

\* the request for a page of events is answered
EventsAnswered(out) ==
    /\ net.st = "pool" /\ net.events.st = "inflight"
    /\ net' = [net EXCEPT !.events = events_turn(net.events, out),
                          !.log = Append(@, Answered("events",
                                                     net.events.page, out))]
    /\ UNCHANGED <<aside, now, cache, threads>>

\* the as_completed loop takes a future that is done (185-189):
\* future.result() returns its value or raises its exception
Collect(f) ==
    /\ net.st = "pool" /\ net.pending = "none"
    /\ net[f].st = "done" /\ net.results[f] = Null
    /\ net' = IF net[f].out.exc = "none"
              THEN [net EXCEPT !.results[f] = net[f].out]
              ELSE [net EXCEPT !.pending = net[f].out.exc]
    /\ UNCHANGED <<aside, now, cache, threads>>

\* the exception leaves the with block once the pool has shut down, that is
\* once both workers have finished
PoolRaises ==
    /\ net.st = "pool" /\ net.pending # "none"
    /\ net.repos.st = "done" /\ net.events.st = "done"
    /\ net' = [net EXCEPT !.st = "raised", !.exc = net.pending]
    /\ UNCHANGED <<aside, now, cache, threads>>

\* both results are collected: the rate-limit request is sent (191)
RateLimitRequested ==
    /\ net.st = "pool"
    /\ net.results.repos # Null /\ net.results.events # Null
    /\ net' = [net EXCEPT !.st = "rate",
                          !.log = Append(@, Sent("rate_limit", 0))]
    /\ UNCHANGED <<aside, now, cache, threads>>

\* get_rate_limit_status ends and fetch_all returns (199-204)
FetchAllReturns(out) ==
    /\ net.st = "rate"
    /\ net' = [net EXCEPT
                 !.st = "returned",
                 !.log = Append(@, Answered("rate_limit", 0, out)),
                 !.ret = FetchAllResult(net.profile,
                                        [repos |-> net.results.repos.val,
                                         events |-> net.results.events.val],
                                        get_rate_limit_status(out))]
    /\ UNCHANGED <<aside, now, cache, threads>>

NextFetch ==
    \/ FetchAll
    \/ \E out \in {Returns([login |-> "octocat"])} \cup Failures :
         ProfileEnds(out)
    \/ ReposStarts
    \/ \E out \in {Returns(ReposBody)} \cup Failures : ReposEnds(out)
    \/ EventsRequests
    \/ /\ net.st = "pool" /\ net.events.st = "inflight"
       /\ \E out \in {Returns(EventsBody(net.events.page)), Returns(<<>>)}
                      \cup Failures : EventsAnswered(out)
    \/ \E f \in {"repos", "events"} : Collect(f)
    \/ PoolRaises
    \/ RateLimitRequested
    \/ \E out \in {Returns([resources |-> "core"])} \cup Failures :
         FetchAllReturns(out)

SpecFetch == Init /\ [][NextFetch]_vars

\* ------------------------------------------------------------ properties
HasRaw == "events" \in DOMAIN raw
HasMetrics == "exc" \in DOMAIN metrics
Returned == HasRaw /\ HasMetrics /\ metrics.exc = "none"
Scored == pc = "scored"

InRange(x) == 0 <= x /\ x <= 100 * 1000

\* C1: for every Metrics with finite, non-negative numeric fields, each of
\* the six dimension scores and the overall score of score() lies in
\* [0, 100] inclusive.
C1_ScoresInRange ==
    Scored =>
        /\ DOMAIN report.dimensions = DimensionNames
        /\ \A d \in DimensionNames : InRange(report.dimensions[d])
        /\ InRange(report.overall_score)

\* a report in which the upper clamp acted: 5000 pull requests, issues,
\* forks and followers are far above every scale of the collaboration score
C1_Witness ==
    /\ Scored
    /\ metrics.pr_events = 5000
    /\ report.dimensions.collaboration = 100 * 1000
    /\ report.dimensions.consistency < 100 * 1000

\* C2: tendency is a total function of the overall score: >= 70 (70 and 100
\* included) is Utopia, <= 40 (40 and 0 included) is Dystopia, strictly
\* between is Unexpected.
C2_ClassifyTotal ==
    pc = "classified" =>
        LET s == cls.overall_score
        IN /\ s >= 70 * 1000 => cls.tendency = "Utopia"
           /\ s <= 40 * 1000 => cls.tendency = "Dystopia"
           /\ (40 * 1000 < s /\ s < 70 * 1000) => cls.tendency = "Unexpected"
           /\ cls.tendency \in {"Utopia", "Dystopia", "Unexpected"}

\* the score of exactly 70 classified
C2_Witness ==
    /\ pc = "classified"
    /\ cls.overall_score = 70 * 1000
    /\ cls.tendency = "Utopia"

\* C3: overall_score is the clamp to [0, 100] of the sum of the six dimension
\* scores times 0.20, 0.20, 0.20, 0.15, 0.15, 0.10, and the tendency of the
\* same report is the classification of exactly that overall_score.
C3_OverallIsWeightedSum ==
    Scored =>
        LET d == report.dimensions
            sum == (d.consistency * 20 + d.collaboration * 20 + d.depth * 20
                    + d.breadth * 15 + d.momentum * 15 + d.openness * 10)
                   \div 100
            o == report.overall_score
        IN /\ o = (IF sum > 100 * 1000 THEN 100 * 1000
                   ELSE IF sum < 0 THEN 0 ELSE sum)
           /\ report.tendency =
                (IF o >= 70 * 1000 THEN "Utopia"
                 ELSE IF o <= 40 * 1000 THEN "Dystopia" ELSE "Unexpected")

\* a report of the pipeline whose dimensions differ, so that the weights show
C3_Witness ==
    /\ Scored
    /\ HasRaw
    /\ report.overall_score > 0
    /\ report.dimensions.openness > report.dimensions.momentum
    /\ report.dimensions.momentum > report.dimensions.consistency
    /\ report.dimensions.consistency > 0

\* C4: analyze() never raises, whatever field of the profile, of a
\* repository or of an event is absent, null or malformed.
C4_AnalyzeNeverRaises ==
    (HasRaw /\ HasMetrics) => metrics.exc = "none"

\* the three events of test_no_crash_on_malformed_events
PushNoDate == RawEvent(Text("PushEvent"), Absent, Absent)
DatedNoType == RawEvent(Absent, IsoAware(Now0 - Days(1), 0), Absent)
EmptyEvent == RawEvent(Absent, Absent, Absent)
MalformedTestEvents == {PushNoDate, DatedNoType, EmptyEvent}

EventFieldNames ==
    {"total_events", "push_events", "pr_events", "issue_events",
     "fork_events", "watch_events", "commit_count_90d", "active_days_90d",
     "events_last_30d", "events_30_90d", "most_active_period",
     "event_type_diversity"}

MadeOfTestEvents(events) ==
    /\ \A k \in MalformedTestEvents : \E i \in 1..Len(events) : events[i] = k
    /\ \A i \in 1..Len(events) : events[i] \in MalformedTestEvents

\* C5: an event list made of a push event without created_at, an event
\* without type and an empty event object does not make analyze() raise; the
\* Metrics returned has every event field and total_events is the length of
\* the list.
C5_MalformedEventsDoNotRaise ==
    (HasRaw /\ HasMetrics /\ MadeOfTestEvents(raw.events)) =>
        /\ metrics.exc = "none"
        /\ EventFieldNames \subseteq DOMAIN metrics
        /\ metrics.total_events = Len(raw.events)

\* the list of the test, in the test's order, analyzed
C5_Witness ==
    /\ Returned
    /\ raw.events = <<PushNoDate, DatedNoType, EmptyEvent>>
    /\ metrics.total_events = 3
    /\ metrics.push_events = 1

\* C6: empty profile, repos and events give the all-default Metrics, and
\* each group of defaults holds whenever its own input is empty.
C6_EmptyInputsGiveDefaults ==
    (HasRaw /\ HasMetrics) =>
        /\ (raw.profile = EmptyProfile /\ raw.repos = <<>> /\ raw.events = <<>>)
              => metrics.exc = "none"
        /\ (metrics.exc = "none" /\ raw.profile = EmptyProfile) =>
              /\ metrics.username = Text("unknown")
              /\ metrics.account_age_days = Q(0)
        /\ (metrics.exc = "none" /\ raw.repos = <<>>) =>
              /\ metrics.total_repos = 0
              /\ metrics.total_stars = 0
              /\ metrics.language_count = 0
              /\ metrics.top_languages = "N/A"
        /\ (metrics.exc = "none" /\ raw.events = <<>>) =>
              /\ metrics.total_events = 0
              /\ metrics.commit_count_90d = 0

\* everything empty
C6_Witness ==
    /\ Returned
    /\ raw = RawData(EmptyProfile, <<>>, <<>>)
    /\ metrics.username = Text("unknown")
    /\ metrics.top_languages = "N/A"
    /\ metrics.total_events = 0

\* the four fields the loop over events accumulates
LoopFields(m) ==
    <<m.commit_count_90d, m.active_days_90d, m.events_last_30d, m.events_30_90d>>

HasDate(e) == e.created_at.t = "isostr"
HasType(e) == e.type.t = "str"

\* the metrics of the events that pass Keep, read at the same instant
Without(Keep(_)) == event_metrics(SelectSeq(raw.events, Keep), now)

AgeOf(e) == now - e.created_at.ts

EventsWhere(Test(_)) ==
    {i \in 1..Len(raw.events) : HasDate(raw.events[i]) /\ Test(raw.events[i])}

\* C8: every event with a parsable created_at is counted in exactly one of
\* three age classes: events_last_30d when aged <= 30 days, events_30_90d
\* when aged in (30, 90] days, neither when older; so the two counts sum to
\* at most total_events.
C8_AgeWindows ==
    Returned =>
        LET Recent(e) == AgeOf(e) <= 30 * TicksPerDay
            Middle(e) == 30 * TicksPerDay < AgeOf(e) /\ AgeOf(e) <= 90 * TicksPerDay
        IN /\ metrics.events_last_30d = Cardinality(EventsWhere(Recent))
           /\ metrics.events_30_90d = Cardinality(EventsWhere(Middle))
           /\ metrics.events_last_30d + metrics.events_30_90d
                 <= metrics.total_events

\* an event aged exactly 30 days, one aged exactly 90 days and one older
C8_Witness ==
    /\ Returned
    /\ now = Now0
    /\ \E i \in 1..Len(raw.events) :
           HasDate(raw.events[i]) /\ AgeOf(raw.events[i]) = 30 * TicksPerDay
    /\ \E i \in 1..Len(raw.events) :
           HasDate(raw.events[i]) /\ AgeOf(raw.events[i]) = 90 * TicksPerDay
    /\ \E i \in 1..Len(raw.events) :
           HasDate(raw.events[i]) /\ AgeOf(raw.events[i]) > 90 * TicksPerDay
    /\ metrics.events_last_30d = 1
    /\ metrics.events_30_90d = 1
    /\ metrics.total_events = 3

\* len(payload.commits) of an event that did not make the loop raise
CommitsOf(e) ==
    IF e.payload.t = "dict" /\ e.payload.commits.t = "list"
    THEN e.payload.commits.len ELSE 0

\* the commits of the events of raw.events at the indices idx, summed
RECURSIVE CommitSum(_)
CommitSum(idx) ==
    IF idx = {} THEN 0
    ELSE LET i == CHOOSE j \in idx : TRUE
         IN CommitsOf(raw.events[i]) + CommitSum(idx \ {i})

\* C9: commit_count_90d is the sum of len(payload.commits) over exactly the
\* PushEvent events aged <= 90 days, and active_days_90d the number of
\* distinct calendar dates of exactly those events.
C9_CommitsAndActiveDays ==
    Returned =>
        LET Push90(e) == /\ e.type = Text("PushEvent")
                         /\ AgeOf(e) <= 90 * TicksPerDay
            idx == EventsWhere(Push90)
            dates == {(raw.events[i].created_at.ts + raw.events[i].created_at.off)
                        \div TicksPerDay : i \in idx}
        IN /\ metrics.commit_count_90d = CommitSum(idx)
           /\ metrics.active_days_90d = Cardinality(dates)

\* a push aged exactly 90 days with one commit, a push aged 91 days with
\* three and a pull-request event in the window: only the first counts
C9_Witness ==
    /\ Returned
    /\ now = Now0
    /\ \E i \in 1..Len(raw.events) :
           /\ raw.events[i].type = Text("PushEvent")
           /\ HasDate(raw.events[i])
           /\ AgeOf(raw.events[i]) > 90 * TicksPerDay
           /\ CommitsOf(raw.events[i]) = 3
    /\ \E i \in 1..Len(raw.events) :
           /\ raw.events[i].type = Text("PullRequestEvent")
           /\ HasDate(raw.events[i])
           /\ AgeOf(raw.events[i]) <= 90 * TicksPerDay
    /\ metrics.commit_count_90d = 1
    /\ metrics.active_days_90d = 1

PeriodRule(a, b) ==
    IF a > b THEN "Last 30 days (currently active)"
    ELSE IF b > 0 THEN "30-90 days ago" ELSE "More than 90 days ago"

\* C10 as stated: for every event list, empty or not, most_active_period is
\* determined by the two window counts: "Last 30 days (currently active)" if
\* events_last_30d > events_30_90d, else "30-90 days ago" if
\* events_30_90d > 0, else "More than 90 days ago".
C10_PeriodFromCountsAlways ==
    Returned =>
        metrics.most_active_period =
            PeriodRule(metrics.events_last_30d, metrics.events_30_90d)

\* C10 amended: the rule holds for every non-empty event list; for the empty
\* list most_active_period is "N/A".
C10_PeriodFromCountsNonEmpty ==
    Returned =>
        metrics.most_active_period =
            IF raw.events = <<>> THEN "N/A"
            ELSE PeriodRule(metrics.events_last_30d, metrics.events_30_90d)

\* a non-empty list with both windows empty
C10_Witness ==
    /\ Returned
    /\ raw.events # <<>>
    /\ metrics.events_last_30d = 0
    /\ metrics.events_30_90d = 0
    /\ metrics.most_active_period = "More than 90 days ago"

\* the indices of the events whose type is one of names
OfType(names) ==
    {i \in 1..Len(raw.events) :
        raw.events[i].type.t = "str" /\ raw.events[i].type.v \in names}

BucketTypes ==
    {"PushEvent", "PullRequestEvent", "PullRequestReviewEvent", "IssuesEvent",
     "IssueCommentEvent", "ForkEvent", "WatchEvent"}

\* C11: the five type buckets are counted by type alone, without any age
\* filter: push_events counts PushEvent, pr_events PullRequestEvent and
\* PullRequestReviewEvent, issue_events IssuesEvent and IssueCommentEvent,
\* fork_events ForkEvent, watch_events WatchEvent; an event of another type
\* is in no bucket but in total_events and in event_type_diversity, the
\* number of distinct non-null types; so the bucket sum and
\* event_type_diversity are both at most total_events.
C11_TypeBuckets ==
    Returned =>
        LET bucket_sum == metrics.push_events + metrics.pr_events
                          + metrics.issue_events + metrics.fork_events
                          + metrics.watch_events
        IN /\ metrics.push_events = Cardinality(OfType({"PushEvent"}))
           /\ metrics.pr_events =
                 Cardinality(OfType({"PullRequestEvent", "PullRequestReviewEvent"}))
           /\ metrics.issue_events =
                 Cardinality(OfType({"IssuesEvent", "IssueCommentEvent"}))
           /\ metrics.fork_events = Cardinality(OfType({"ForkEvent"}))
           /\ metrics.watch_events = Cardinality(OfType({"WatchEvent"}))
           /\ metrics.total_events = Len(raw.events)
           /\ bucket_sum = Cardinality(OfType(BucketTypes))
           /\ bucket_sum <= metrics.total_events
           /\ metrics.event_type_diversity =
                 Cardinality({raw.events[i].type.v :
                                i \in {j \in 1..Len(raw.events) :
                                         raw.events[j].type.t = "str"}})
           /\ metrics.event_type_diversity <= metrics.total_events

\* a pull-request review older than every age window, an issue comment and
\* an event of no bucket: two buckets hold one event each, three types seen
C11_Witness ==
    /\ Returned
    /\ \E i \in 1..Len(raw.events) :
           /\ raw.events[i].type = Text("PullRequestReviewEvent")
           /\ HasDate(raw.events[i])
           /\ AgeOf(raw.events[i]) > 90 * TicksPerDay
    /\ \E i \in 1..Len(raw.events) : raw.events[i].type = Text("IssueCommentEvent")
    /\ \E i \in 1..Len(raw.events) : raw.events[i].type = Text("CreateEvent")
    /\ metrics.pr_events = 1
    /\ metrics.issue_events = 1
    /\ metrics.push_events = 0
    /\ metrics.total_events = 3
    /\ metrics.event_type_diversity = 3

\* the repositories that tell a language, and where a language is told
WithLanguage == {i \in 1..Len(raw.repos) : raw.repos[i].language.t = "str"}
ReposOf(l) == {i \in WithLanguage : raw.repos[i].language.v = l}
FirstOf(l) == CHOOSE i \in ReposOf(l) : \A j \in ReposOf(l) : i <= j

\* the first five of a list joined by ", "
FirstFiveJoined(L) ==
    CASE Len(L) = 0 -> "N/A"
      [] Len(L) = 1 -> L[1]
      [] Len(L) = 2 -> L[1] \o ", " \o L[2]
      [] Len(L) = 3 -> L[1] \o ", " \o L[2] \o ", " \o L[3]
      [] Len(L) = 4 -> L[1] \o ", " \o L[2] \o ", " \o L[3] \o ", " \o L[4]
      [] OTHER -> L[1] \o ", " \o L[2] \o ", " \o L[3] \o ", " \o L[4]
                  \o ", " \o L[5]

\* C12: languages lists every distinct non-null repository language exactly
\* once, by descending repository count, equal counts in first-encountered
\* order; top_languages is the first five of that list joined by ", " (or
\* "N/A" when there is none); language_count is the length of languages.
C12_LanguagesRanked ==
    Returned =>
        LET L == metrics.languages
        IN /\ {L[i] : i \in 1..Len(L)} =
                 {raw.repos[i].language.v : i \in WithLanguage}
           /\ \A i, j \in 1..Len(L) : i # j => L[i] # L[j]
           /\ \A i, j \in 1..Len(L) :
                 i < j =>
                   \/ Cardinality(ReposOf(L[i])) > Cardinality(ReposOf(L[j]))
                   \/ /\ Cardinality(ReposOf(L[i])) = Cardinality(ReposOf(L[j]))
                      /\ FirstOf(L[i]) < FirstOf(L[j])
           /\ metrics.top_languages = FirstFiveJoined(L)
           /\ metrics.language_count = Len(L)

\* seven languages, the most frequent met after two others, two pairs of
\* equal counts: the list is cut to five for top_languages
C12_Witness ==
    /\ Returned
    /\ metrics.languages =
          <<"Python", "Go", "C", "Rust", "Java", "Ruby", "Kotlin">>
    /\ metrics.top_languages = "Python, Go, C, Rust, Java"
    /\ metrics.language_count = 7
    /\ \E i \in 1..Len(raw.repos) : raw.repos[i].language = Null

\* the repositories with a license, and the forks
Licensed == {i \in 1..Len(raw.repos) : raw.repos[i].license.t = "dict"}
Forks == {i \in 1..Len(raw.repos) : raw.repos[i].fork = Flag(TRUE)}

\* the rational r is the fraction k out of n (0 when n = 0)
IsFraction(r, k, n) ==
    /\ r.d > 0
    /\ IF n = 0 THEN r.n = 0 ELSE r.n * n = k * r.d

\* C13: for every repository list has_license_ratio is the fraction of
\* repositories with a non-null license and forked_ratio the fraction with
\* fork true, both in [0, 1]; original_repo_count is total_repos minus the
\* number of forks, so 0 <= original_repo_count <= total_repos and
\* forked_ratio * total_repos + original_repo_count = total_repos.
C13_LicenseAndForkRatios ==
    Returned =>
        LET n == metrics.total_repos
            lic == metrics.has_license_ratio
            frk == metrics.forked_ratio
        IN /\ n = Len(raw.repos)
           /\ IsFraction(lic, Cardinality(Licensed), n)
           /\ IsFraction(frk, Cardinality(Forks), n)
           /\ 0 <= lic.n /\ lic.n <= lic.d
           /\ 0 <= frk.n /\ frk.n <= frk.d
           /\ metrics.original_repo_count = n - Cardinality(Forks)
           /\ 0 <= metrics.original_repo_count
           /\ metrics.original_repo_count <= n
           /\ frk.n * n + metrics.original_repo_count * frk.d = n * frk.d

\* two repositories, one of them a fork, one of them licensed
C13_Witness ==
    /\ Returned
    /\ Len(raw.repos) = 2
    /\ Cardinality(Forks) = 1
    /\ Cardinality(Licensed) = 1
    /\ Forks # Licensed
    /\ metrics.forked_ratio = [n |-> 1, d |-> 2]
    /\ metrics.has_license_ratio = [n |-> 1, d |-> 2]
    /\ metrics.original_repo_count = 1

\* the repositories whose created_at parses
Parsable == {i \in 1..Len(raw.repos) : raw.repos[i].created_at.t = "isostr"}

\* the ages, in ticks, of the repositories idx at the instant t, summed
RECURSIVE AgeSum(_, _)
AgeSum(idx, t) ==
    IF idx = {} THEN 0
    ELSE LET i == CHOOSE j \in idx : TRUE
         IN (t - raw.repos[i].created_at.ts) + AgeSum(idx \ {i}, t)

\* C14: avg_repo_age_days is the mean of days-since-creation over only the
\* repositories whose created_at is parsable, 0.0 when there is none; a
\* repository with an absent or unparsable created_at changes neither the
\* numerator nor the denominator. (The clock reads of the call fall within
\* one tick before the instant left in now.)
C14_MeanOverParsable ==
    Returned =>
        LET avg == metrics.avg_repo_age_days
            k == Cardinality(Parsable)
        IN IF k = 0 THEN avg.n = 0
           ELSE /\ AgeSum(Parsable, now - 1) * avg.d <= avg.n * k * TicksPerDay
                /\ avg.n * k * TicksPerDay <= AgeSum(Parsable, now) * avg.d

\* C15: momentum_ratio is events_last_30d divided by
\* max(events_30_90d / 2, 1): the denominator is never below 1, the ratio is
\* >= 0, it is events_last_30d itself whenever events_30_90d <= 2, and the
\* extractor does not cap it at 3.0 (the momentum scorer does).
C15_MomentumRatio ==
    Returned =>
        LET r == metrics.momentum_ratio
            a == metrics.events_last_30d
            b == metrics.events_30_90d
        IN /\ r.d > 0 /\ r.n >= 0
           /\ IF b <= 2 THEN r.n = a * r.d
              ELSE r.n * b = 2 * a * r.d
           /\ (pc = "scored" /\ r.n >= 3 * r.d) =>
                 report.dimensions.momentum =
                    score_momentum([metrics EXCEPT !.momentum_ratio = [n |-> 3, d |-> 1]])

\* five recent events against three earlier ones give 10/3, above the cap of
\* the scorer, and the report is scored from it
C15_Witness ==
    /\ Returned
    /\ pc = "scored"
    /\ metrics.events_last_30d = 5
    /\ metrics.events_30_90d = 3
    /\ metrics.momentum_ratio = [n |-> 10, d |-> 3]
    /\ report.dimensions.momentum > 60 * 1000

\* the values of a mapping with keys, summed
RECURSIVE SumOfValues(_, _)
SumOfValues(f, keys) ==
    IF keys = {} THEN 0
    ELSE LET k == CHOOSE x \in keys : TRUE
         IN f[k] + SumOfValues(f, keys \ {k})

\* C18: the weights mapping of every ScoreReport has exactly the six
\* dimension names as keys, the keys of its dimensions mapping, and its
\* values sum to 1.0 (the model counts weights in hundredths).
C18_WeightsSumToOne ==
    Scored =>
        /\ DOMAIN report.weights =
              {"consistency", "collaboration", "depth", "breadth", "momentum",
               "openness"}
        /\ DOMAIN report.weights = DOMAIN report.dimensions
        /\ SumOfValues(report.weights, DOMAIN report.weights) = 100

\* a report of the pipeline and its weights
C18_Witness ==
    /\ Scored
    /\ HasRaw
    /\ report.weights.consistency = 20
    /\ report.weights.breadth = 15
    /\ report.weights.openness = 10
    /\ report.overall_score > 0

\* every activity signal of the metrics is zero, no blog, no bio
Inactive(m) ==
    /\ m.total_repos = 0 /\ m.total_stars = 0 /\ m.total_forks_received = 0
    /\ m.commit_count_90d = 0 /\ m.active_days_90d = 0
    /\ m.events_last_30d = 0 /\ m.events_30_90d = 0
    /\ m.pr_events = 0 /\ m.issue_events = 0 /\ m.fork_events = 0
    /\ m.followers \in {[t |-> "int", v |-> 0], [t |-> "absent"]}
    /\ m.language_count = 0 /\ m.event_type_diversity = 0
    /\ m.momentum_ratio.n = 0 /\ m.has_license_ratio.n = 0
    /\ m.forked_ratio.n = 0
    /\ ~m.has_blog /\ ~m.has_bio

\* C19: when every activity signal is zero and has_blog and has_bio are
\* false, score() returns an overall_score below 20 and tendency Dystopia,
\* whatever account_age_days, avg_repo_age_days and original_repo_count are.
C19_InactiveIsDystopia ==
    (Scored /\ Inactive(metrics)) =>
        /\ report.overall_score < 20 * 1000
        /\ report.tendency = "Dystopia"

\* an inactive profile with the three free fields far above their scales:
\* depth reaches its 40 points and the overall score stays under 20
C19_Witness ==
    /\ Scored
    /\ Inactive(metrics)
    /\ metrics.account_age_days = [n |-> 20000, d |-> 1]
    /\ metrics.avg_repo_age_days = [n |-> 20000, d |-> 1]
    /\ metrics.original_repo_count = 5000
    /\ report.dimensions.depth = 40 * 1000
    /\ report.dimensions.consistency = 2 * 1000
    /\ report.overall_score = 8400

\* the calls of the log made to fn
CallsOf(fn) == {i \in 1..Len(calls) : calls[i].fn = fn}

AtOneInstant(c, t) == c.ret = analyze(c.arg, [k \in 1..Len(c.reads) |-> t])

\* C17 as stated: analyze() is a pure function of its three raw inputs: two
\* calls with identical profile, repos and events return identical Metrics
\* regardless of when each is made, and within one call every age-derived
\* field is computed against the same instant.
C17_AnalyzeIsPure ==
    /\ \A i, j \in CallsOf("analyze") :
          calls[i].arg = calls[j].arg => calls[i].ret = calls[j].ret
    /\ \A i \in CallsOf("analyze") :
          \E t \in {calls[i].reads[1], calls[i].reads[Len(calls[i].reads)]} :
              AtOneInstant(calls[i], t)

\* the fields of Metrics that are computed from an age
AgeDerived ==
    {"account_age_days", "account_age_years", "avg_repo_age_days",
     "commit_count_90d", "active_days_90d", "events_last_30d", "events_30_90d",
     "most_active_period", "momentum_ratio"}

TimeFree(m) == [k \in DOMAIN m \ AgeDerived |-> m[k]]

\* C17 amended: analyze() depends on its three raw inputs and on the clock
\* only. Two calls with identical inputs agree on every field that is not
\* age-derived whenever they are made, and on every field when their clock
\* reads returned the same instants. Within one call the clock is read once
\* per age: account_age_days is computed against the first read and
\* account_age_years against the second.
C17_AnalyzeDependsOnClockOnly ==
    /\ \A i, j \in CallsOf("analyze") :
          calls[i].arg = calls[j].arg =>
            /\ TimeFree(calls[i].ret) = TimeFree(calls[j].ret)
            /\ calls[i].reads = calls[j].reads => calls[i].ret = calls[j].ret
    /\ \A i \in CallsOf("analyze") :
          LET c == calls[i]
              created == c.arg.profile.created_at
          IN (c.ret.exc = "none" /\ created.t = "isostr") =>
               /\ c.ret.account_age_days.n * TicksPerDay =
                     (c.reads[1] - created.ts) * c.ret.account_age_days.d
               /\ c.ret.account_age_years.n * 1461 * TicksPerDay =
                     4 * (c.reads[2] - created.ts) * c.ret.account_age_years.d

\* the same input analyzed twice, a tick apart: the event aged exactly 30
\* days leaves the 30-day window, the account ages; and the clock ticked
\* between the two reads of the first call
C17_Witness ==
    /\ Len(calls) >= 2
    /\ calls[1].fn = "analyze" /\ calls[2].fn = "analyze"
    /\ calls[1].arg = calls[2].arg
    /\ calls[1].reads[1] # calls[1].reads[2]
    /\ calls[1].ret.events_last_30d = 0
    /\ calls[1].ret.account_age_days # calls[2].ret.account_age_days
    /\ calls[1].ret.total_repos = calls[2].ret.total_repos
    /\ calls[1].ret.total_repos = 1

\* two usernames are equal ignoring letter case
SameIgnoringCase(u, v) ==
    /\ Len(u) = Len(v)
    /\ \A i \in 1..Len(u) :
          \/ u[i] = v[i]
          \/ \E c \in 65..90 : {u[i], v[i]} = {c, c + 32}

\* operation i stored a result for a name: set_cached_result called on its
\* own, or by a run_analysis that went through the pipeline
Stores(i) ==
    \/ ops[i].op = "set"
    \/ ops[i].op = "run" /\ "cache_write" \in ops[i].did

Stored(i) == IF ops[i].op = "set" THEN ops[i].d ELSE ops[i].ret

\* between operations i and j the entry of the name of i was neither
\* cleared nor stored again, and at j it is younger than 24 hours
Untouched(i, j) ==
    /\ \A k \in (i + 1)..(j - 1) :
          (ops[k].op = "clear" \/ Stores(k)) =>
              ~SameIgnoringCase(ops[k].u, ops[i].u)
    /\ ops[j].at - ops[i].at < TicksPerDay

\* C20: after set_cached_result(u, d), with no clear (nor newer result
\* stored) for that name and no expiry in between, run_analysis(u') for any
\* u' equal to u ignoring letter case returns d unchanged and performs no
\* GitHub fetch, no analyze, no score, no narrative generation and no cache
\* write.
C20_CacheHitShortCircuits ==
    \A j \in 1..Len(ops) : \A i \in 1..(j - 1) :
        (/\ ops[j].op = "run"
         /\ Stores(i)
         /\ SameIgnoringCase(ops[i].u, ops[j].u)
         /\ Untouched(i, j))
        => /\ ops[j].ret = Stored(i)
           /\ ops[j].did = {}

\* a result stored for "Ab", the analysis run and its result stored for "b",
\* then, a tick later, run_analysis("ab") returns the result stored for "Ab"
\* with no step performed
C20_Witness ==
    /\ Len(ops) = 3
    /\ ops[1].op = "set" /\ ops[1].u = <<65, 98>>
    /\ ops[2].op = "run" /\ ops[2].u = <<98>>
    /\ "cache_write" \in ops[2].did /\ ops[2].ret # ops[1].d
    /\ ops[3].op = "run" /\ ops[3].u = <<97, 98>>
    /\ ops[3].at > ops[1].at
    /\ ops[3].ret = ops[1].d
    /\ ops[3].did = {}
    /\ cache[[md5 |-> <<97, 98>>]].cached_at = ops[1].at

\* operation k changed what is stored for the name of operation i: it
\* stored a result for it or cleared it
Rewrites(k, i) ==
    /\ ops[k].op = "clear" \/ Stores(k)
    /\ SameIgnoringCase(ops[k].u, ops[i].u)

\* C21: the disk cache has a 24-hour time to live. get_cached_result
\* returns a stored result only while its age is below DISK_CACHE_TTL; a get
\* on an entry whose age has reached DISK_CACHE_TTL returns None and removes
\* the entry; and once a get returned None, every later get for that name
\* returns None until a result is stored for it again.
C21_TimeToLive ==
    /\ \A j \in 1..Len(ops) :
          (ops[j].op = "get" /\ ops[j].ret # Null) =>
              \E i \in 1..(j - 1) :
                  /\ Stores(i)
                  /\ SameIgnoringCase(ops[i].u, ops[j].u)
                  /\ Stored(i) = ops[j].ret
                  /\ ops[j].at - ops[i].at < DISK_CACHE_TTL
    /\ \A j \in 1..Len(ops) : \A i \in 1..(j - 1) :
          (/\ ops[j].op = "get"
           /\ Stores(i)
           /\ SameIgnoringCase(ops[i].u, ops[j].u)
           /\ \A k \in (i + 1)..(j - 1) : ~Rewrites(k, i)
           /\ ops[j].at - ops[i].at >= DISK_CACHE_TTL)
          => ops[j].ret = Null
    /\ (/\ Len(ops) > 0
        /\ ops[Len(ops)].op = "get"
        /\ ops[Len(ops)].ret = Null)
       => ~Exists(disk_cache_key(ops[Len(ops)].u))
    /\ \A j \in 1..Len(ops) : \A i \in 1..(j - 1) :
          (/\ ops[i].op = "get" /\ ops[i].ret = Null
           /\ ops[j].op = "get"
           /\ SameIgnoringCase(ops[i].u, ops[j].u)
           /\ \A k \in (i + 1)..(j - 1) :
                 ~(Stores(k) /\ SameIgnoringCase(ops[k].u, ops[i].u)))
          => ops[j].ret = Null

\* a result is stored for "Ab"; exactly 24 hours later get_cached_result("ab")
\* returns None and the entry is gone, and the next get returns None too
C21_Witness ==
    /\ Len(ops) = 3
    /\ ops[1].op = "set" /\ ops[1].u = <<65, 98>>
    /\ ops[2].op = "get" /\ ops[2].at = ops[1].at + DISK_CACHE_TTL
    /\ ops[2].ret = Null
    /\ ops[3].op = "get" /\ ops[3].ret = Null
    /\ ~Exists(disk_cache_key(<<97, 98>>))

\* the generate() calls logged
Generations == {i \in 1..Len(ops) : ops[i].op = "generate"}

\* C22: NarrativeEngine.generate never propagates an exception: whatever
\* its generator calls do on the first or the second attempt, it makes at
\* most two generator calls and returns either a validated triple with
\* is_fallback False or the fallback triple with is_fallback True.
C22_GenerateNeverRaises ==
    \A i \in Generations :
        /\ ops[i].exc = "none"
        /\ ops[i].n_calls <= 2
        /\ \/ ~ops[i].is_fallback /\ validate_futures(ops[i].ret) = "none"
           \/ ops[i].is_fallback /\ ops[i].ret = FALLBACK_FUTURES

\* v is an object that has a title and a narrative
IsFuture(v) ==
    /\ v.t = "dict"
    /\ {"title", "narrative"} \subseteq DOMAIN v.items

\* C23: every mapping generate returns (generated, served from the
\* in-process cache, or the fallback) has exactly the three keys utopia,
\* dystopia and unexpected, each mapped to an object with a title and a
\* narrative.
C23_ExactlyThreeFutures ==
    \A i \in Generations :
        ops[i].exc = "none" =>
            /\ ops[i].ret.t = "dict"
            /\ DOMAIN ops[i].ret.items = required_keys
            /\ \A k \in required_keys : IsFuture(ops[i].ret.items[k])

\* the step is a run_analysis whose GitHub fetch failed
FetchFailed ==
    /\ Len(ops') = Len(ops) + 1
    /\ ops'[Len(ops')].op = "run"
    /\ ops'[Len(ops')].did = {"fetch"}
    /\ ops'[Len(ops')].ret = Null

\* the in-process narrative cache holds validated responses only, never the
\* fallback triple
NarrativeCacheValidated ==
    \A k \in DOMAIN engine.cache :
        /\ validate_futures(engine.cache[k]) = "none"
        /\ engine.cache[k] # FALLBACK_FUTURES

\* a generate() call that follows a fallback result for the same report
\* calls the generator again
GeneratorCalledAfterFallback ==
    \A j \in Generations : \A i \in Generations :
        (/\ i < j
         /\ ops[i].key = ops[j].key
         /\ ops[i].is_fallback
         /\ \A k \in Generations : ~(i < k /\ k < j /\ ops[k].key = ops[i].key))
        => ops[j].n_calls >= 1

\* C30 as stated: a run_analysis whose GitHub fetch fails returns None and
\* leaves the disk cache unchanged; the narrative cache holds validated
\* responses only, so generate() after a fallback calls the generator again.
C30_FailedRunLeavesCacheUnchanged ==
    [][/\ FetchFailed => cache' = cache
       /\ NarrativeCacheValidated'
       /\ GeneratorCalledAfterFallback']_vars

\* C30, amended: a run_analysis whose GitHub fetch fails returns None and
\* writes nothing to the disk cache: no entry is added or replaced, and the
\* only entry that may disappear is that of the username, when it had
\* expired (the lookup at the start of run_analysis removes it). The
\* narrative cache holds validated responses only, never the fallback
\* triple, so generate() after a fallback calls the generator again.
C30_FailedRunWritesNothing ==
    [][/\ FetchFailed =>
            /\ \A k \in DOMAIN cache' : k \in DOMAIN cache /\ cache'[k] = cache[k]
            /\ \A k \in DOMAIN cache \ DOMAIN cache' :
                  /\ k = disk_cache_key(ops'[Len(ops')].u)
                  /\ now - cache[k].cached_at >= DISK_CACHE_TTL
       /\ NarrativeCacheValidated'
       /\ GeneratorCalledAfterFallback']_vars

\* a result is stored for "Ab"; 24 hours later run_analysis("ab") fails to
\* fetch: it returns None, nothing is stored, and the expired entry is gone
C30_Witness ==
    /\ Len(ops) = 2
    /\ ops[1].op = "set" /\ ops[1].u = <<65, 98>>
    /\ ops[2].op = "run" /\ ops[2].u = <<97, 98>>
    /\ ops[2].ret = Null /\ ops[2].did = {"fetch"}
    /\ ops[2].at >= ops[1].at + DISK_CACHE_TTL
    /\ cache = <<>>

\* the invocations of the wrapped function made so far by the call rt
Invocations == {p \in 1..Len(rt.trace) : rt.trace[p].e = "call"}
Sleeps == {p \in 1..Len(rt.trace) : rt.trace[p].e = "sleep"}

\* the typed errors _get raises for a status other than 200
TypedErrors ==
    {"GitHubUserNotFoundError", "GitHubAuthError", "GitHubRateLimitError",
     "GitHubAPIError"}

\* C25: a function wrapped by retry(max_attempts=n, delay=d, exceptions=E),
\* n >= 1, is invoked at most n times; the first invocation that returns
\* ends the wrapper with that value; an exception outside E propagates at
\* once; after n invocations that all raise in E the wrapper raises the last
\* of them; it sleeps d * 2^(k-1) between attempt k and attempt k+1 and
\* never after the last attempt. For _get (n = 2, E = Timeout and
\* ConnectionError) a status other than 200 is raised as its typed error
\* with no further request, after exactly one request when it answers the
\* first.
C25_RetryBounded ==
    rt.st # "none" =>
    /\ Cardinality(Invocations) <= rt.max_attempts
    /\ \A p \in Invocations :
          LET out == rt.trace[p].out
              k == rt.trace[p].k
          IN /\ k = Cardinality({q \in Invocations : q <= p})
             /\ out.exc = "none" =>
                   /\ p = Len(rt.trace)
                   /\ rt.st = "returned" /\ rt.ret = out.val
             /\ (out.exc # "none" /\ out.exc \notin rt.exceptions) =>
                   /\ p = Len(rt.trace)
                   /\ rt.st = "raised" /\ rt.exc = out.exc
             /\ (out.exc \in rt.exceptions /\ k < rt.max_attempts) =>
                   /\ p < Len(rt.trace)
                   /\ rt.trace[p + 1] =
                          [e |-> "sleep", t |-> rt.delay * Pow2(k - 1)]
                   /\ p + 1 < Len(rt.trace) => rt.trace[p + 2].e = "call"
             /\ (out.exc \in rt.exceptions /\ k = rt.max_attempts) =>
                   /\ p = Len(rt.trace)
                   /\ rt.st = "raised" /\ rt.exc = out.exc
    /\ \A p \in Sleeps :
          /\ p > 1 /\ rt.trace[p - 1].e = "call"
          /\ rt.trace[p - 1].k < rt.max_attempts
    /\ rt.st = "running" =>
          \A p \in Invocations : rt.trace[p].out.exc \in rt.exceptions
    /\ rt.fn = "_get" =>
          \A p \in Invocations :
              rt.trace[p].out.exc \in TypedErrors =>
                  /\ p = Len(rt.trace)
                  /\ rt.st = "raised" /\ rt.exc = rt.trace[p].out.exc
                  /\ rt.trace[p].k = 1 => Cardinality(Invocations) = 1

\* f wrapped with max_attempts = 3 raises E1, E2, E1: three invocations, a
\* sleep of 1.5 s and one of 3 s between them, none after the third, and the
\* wrapper raises the last exception
C25_Witness ==
    /\ rt.st = "raised" /\ rt.fn = "f" /\ rt.max_attempts = 3
    /\ rt.exc = "E1"
    /\ Len(rt.trace) = 5
    /\ rt.trace[1].out = Raises("E1")
    /\ rt.trace[2] = [e |-> "sleep", t |-> 1500]
    /\ rt.trace[3].out = Raises("E2")
    /\ rt.trace[4] = [e |-> "sleep", t |-> 3000]
    /\ rt.trace[5].out = Raises("E1")

\* the requests for pages of events and their answers, in the order of the
\* log
IsEventsRequest(e) == e.req = "events"
EventsLog == SelectSeq(net.log, IsEventsRequest)

\* the answer ends the pagination: an empty page, or an exception
Stops(out) == out.exc # "none" \/ out.val = <<>>

\* the events of the pages answered in the first n entries of the log L
RECURSIVE Received(_, _)
Received(L, n) ==
    IF n = 0 THEN <<>>
    ELSE IF L[n].ev = "end" /\ L[n].out.exc = "none"
    THEN Received(L, n - 1) \o L[n].out.val
    ELSE Received(L, n - 1)

\* C26: fetch_events requests the pages 1, 2, 3 in order and one at a time;
\* it stops at the first page that is empty or fails and never requests a
\* later page; when the stop is an empty page, a GitHubAPIError or the third
\* page, it returns the concatenation in page order of the pages received
\* (at most GITHUB_EVENTS_PAGES of them); a not-found, auth or rate-limit
\* error (any exception other than GitHubAPIError) on any page propagates
\* instead.
C26_EventsPagination ==
    net.st # "new" =>
    /\ Len(EventsLog) <= 2 * GITHUB_EVENTS_PAGES
    /\ \A i \in 1..Len(EventsLog) :
          /\ EventsLog[i].page = (i + 1) \div 2
          /\ EventsLog[i].ev = IF i % 2 = 1 THEN "start" ELSE "end"
          /\ (EventsLog[i].ev = "end" /\ Stops(EventsLog[i].out)) =>
                /\ i = Len(EventsLog)
                /\ net.events.st = "done"
    /\ net.events.st = "done" =>
          /\ Len(EventsLog) > 0
          /\ EventsLog[Len(EventsLog)].ev = "end"
          /\ LET last == EventsLog[Len(EventsLog)].out
             IN /\ last.exc \in {"GitHubUserNotFoundError", "GitHubAuthError",
                                 "GitHubRateLimitError", "Timeout",
                                 "ConnectionError"}
                   => net.events.out = Raises(last.exc)
                /\ last.exc \in {"none", "GitHubAPIError"}
                   => net.events.out =
                          Returns(Received(EventsLog, Len(EventsLog)))
                /\ (~Stops(last)) => Len(EventsLog) = 2 * GITHUB_EVENTS_PAGES

\* pages 1 and 2 are received, page 3 fails with GitHubAPIError:
\* fetch_events returns the events of page 1 followed by those of page 2
C26_Witness ==
    /\ net.st # "new"
    /\ net.events.st = "done"
    /\ Len(EventsLog) = 6
    /\ EventsLog[6].out = Raises("GitHubAPIError")
    /\ net.events.out = Returns(EventsBody(1) \o EventsBody(2))

\* the number of requests in flight after the first p entries of the log
InFlight(p) ==
    Cardinality({q \in 1..p : net.log[q].ev = "start"})
        - Cardinality({q \in 1..p : net.log[q].ev = "end"})

\* C24: in fetch_all the profile request completes before any repos or
\* events request starts, and if it raises none is issued; at most two
\* requests are in flight at any time; whatever the order in which the two
\* fetches complete, 'repos' is the result of fetch_repos and 'events' that
\* of fetch_events; the rate-limit query is issued only after both have
\* completed.
C24_FetchAllOrder ==
    net.st # "new" =>
    /\ net.log[1] = Sent("profile", 0)
    /\ \A p \in 2..Len(net.log) :
          /\ net.log[p].req = "profile" => p = 2 /\ net.log[p].ev = "end"
          /\ net.log[p].req # "profile" =>
                /\ p > 2
                /\ net.log[2].req = "profile"
                /\ net.log[2].ev = "end"
                /\ net.log[2].out.exc = "none"
    /\ (Len(net.log) >= 2 /\ net.log[2].out.exc # "none") =>
          /\ Len(net.log) = 2
          /\ net.st = "raised" /\ net.exc = net.log[2].out.exc
    /\ \A p \in 1..Len(net.log) : InFlight(p) <= 2
    /\ \A p \in 1..Len(net.log) :
          net.log[p].req = "rate_limit" =>
              /\ net.repos.st = "done" /\ net.events.st = "done"
              /\ \A q \in 1..Len(net.log) :
                    net.log[q].req \in {"repos", "events"} => q < p
    /\ net.st = "returned" =>
          /\ net.ret.profile = net.log[2].out.val
          /\ net.ret.repos = net.repos.out.val
          /\ net.ret.events = net.events.out.val
          /\ net.ret.repos = ReposBody

\* fetch_all returned after fetch_events, started second, completed first:
\* two requests were in flight, and the events of two pages and the
\* repositories are under their own keys
C24_Witness ==
    /\ net.st = "returned"
    /\ net.log[3] = Sent("repos", 0)
    /\ net.log[4] = Sent("events", 1)
    /\ InFlight(4) = 2
    /\ \E p \in 1..Len(net.log) :
          /\ net.log[p].req = "repos" /\ net.log[p].ev = "end"
          /\ \A q \in 1..Len(net.log) : net.log[q].req = "events" => q < p
    /\ net.ret.events = EventsBody(1) \o EventsBody(2)
    /\ net.ret.repos = ReposBody

\* C27: the scoring weights are not affected by what callers do with
\* earlier reports: after any sequence of score() calls and of caller
\* mutations of the weights of reports returned earlier, every score()
\* computes overall_score with the weights 0.20/0.20/0.20/0.15/0.15/0.10 and
\* returns weights that sum to 1.0.
C27_WeightsUnaffectedByCallers ==
    \A i \in CallsOf("score") :
        calls[i].ret.exc = "none" =>
            /\ calls[i].ret.weights = SCORE_WEIGHTS
            /\ SumOfValues(calls[i].ret.weights, DimensionNames) = 100
            /\ calls[i].ret.overall_score =
                   clamp(WeightedSum(calls[i].ret.dimensions, SCORE_WEIGHTS,
                                     DimensionNames) \div 100)

\* has_license_ratio and forked_ratio of m are in [0, 1]
RatiosInUnit(m) ==
    /\ RLe(Q(0), m.has_license_ratio) /\ RLe(m.has_license_ratio, Q(1))
    /\ RLe(Q(0), m.forked_ratio) /\ RLe(m.forked_ratio, Q(1))

\* C28: the Metrics analyze() produces have has_license_ratio and
\* forked_ratio in [0, 1]; for such Metrics the openness score is at most 70
\* and the consistency score at most 92, so overall_score is at most 95.4:
\* 100 is unreachable, and the final clamp on overall_score leaves the
\* weighted sum as it is.
C28_ScoreCeilings ==
    /\ Returned => RatiosInUnit(metrics)
    /\ (Scored /\ RatiosInUnit(metrics)) =>
          /\ report.dimensions.openness <= 70 * MILLI
          /\ report.dimensions.consistency <= 92 * MILLI
          /\ report.overall_score <= 95400
          /\ report.overall_score # 100 * MILLI
          /\ report.overall_score * 100 <=
                 WeightedSum(report.dimensions, SCORE_WEIGHTS, DimensionNames)
          /\ WeightedSum(report.dimensions, SCORE_WEIGHTS, DimensionNames) <
                 (report.overall_score + 1) * 100

\* analyze() on an account with a blog and a bio whose repositories are all
\* licensed forks: the openness score is exactly 70
C28_Witness ==
    /\ Scored /\ Returned
    /\ metrics.total_repos > 0
    /\ metrics.has_license_ratio = Q(1) /\ metrics.forked_ratio = Q(1)
    /\ metrics.has_blog /\ metrics.has_bio
    /\ report.dimensions.openness = 70 * MILLI

\* C29: under any interleaving of concurrent get_cached_result,
\* set_cached_result and clear_cache calls on the same username, the file
\* being removed or unreadable between the existence check of a call and
\* its load or remove, no call raises to its caller: get_cached_result
\* returns a stored result or None, and clear_cache returns True or False.
C29_CacheCallsNeverRaise ==
    \A th \in Threads :
        /\ threads[th].exc = "none"
        /\ (threads[th].at = "idle" /\ threads[th].op = "get") =>
              threads[th].ret \in StoredResults \cup {Null}
        /\ (threads[th].at = "idle" /\ threads[th].op = "clear") =>
              threads[th].ret \in {Flag(TRUE), Flag(FALSE)}

====
